---- MODULE Spec2Model ----
(***************************************************************************)
(* js-query-pagination: the query-string encoder (utils.ts), the decoder   *)
(* and entry points (index.ts) and the fluent builder (builder.ts).        *)
(*                                                                         *)
(* JavaScript strings are TLA+ strings.  A JavaScript value is a record    *)
(* with a kind k and a payload whose field is named after its type, so     *)
(* that values of different kinds are records of different shapes:         *)
(*   undefined, null    [k |-> "undef"], [k |-> "null"]                    *)
(*   NaN                [k |-> "nan"]                                      *)
(*   boolean            [k |-> "bool", b |-> TRUE / FALSE]                 *)
(*   number             [k |-> "num",  n |-> the value in tenths]          *)
(*   string             [k |-> "str",  v |-> the string]                   *)
(*   array              [k |-> "arr",  v |-> elements, x |-> named props]  *)
(*   plain object       [k |-> "obj",  e |-> own entries <<key, value>>    *)
(*                       in property enumeration order]                    *)
(***************************************************************************)
EXTENDS Integers, Sequences, FiniteSets, TLC

(***************************************************************************)
(* Strings                                                                 *)
(***************************************************************************)
At(s, i) == SubSeq(s, i, i)

\* The least member of a non-empty set of positions, 0 for the empty set.
First(positions) ==
    IF positions = {} THEN 0 ELSE CHOOSE i \in positions : \A j \in positions : i <= j

\* The first position from i on where s has the character c, 0 when none.
IndexFrom(s, c, i) == First({j \in i..Len(s) : At(s, j) = c})

\* String.prototype.indexOf(c) + 1 for a one-character c: 0 when absent.
IndexOf(s, c) == IndexFrom(s, c, 1)

Includes(s, c) == IndexOf(s, c) > 0

DropFirst(s, n) == SubSeq(s, n + 1, Len(s))

StartsWith(s, p) == Len(s) >= Len(p) /\ SubSeq(s, 1, Len(p)) = p

EndsWith(s, p) == Len(s) >= Len(p) /\ SubSeq(s, Len(s) - Len(p) + 1, Len(s)) = p

\* Array.prototype.join on an array of strings.
RECURSIVE Join(_, _)
Join(strs, sep) ==
    IF Len(strs) = 0 THEN ""
    ELSE IF Len(strs) = 1 THEN strs[1]
    ELSE strs[1] \o sep \o Join(Tail(strs), sep)

\* String.prototype.split on a non-empty one-character separator.
RECURSIVE Split(_, _)
Split(s, c) ==
    LET i == IndexOf(s, c)
    IN  IF i = 0 THEN <<s>>
        ELSE <<SubSeq(s, 1, i - 1)>> \o Split(DropFirst(s, i), c)

RECURSIVE Flatten(_)
Flatten(seqs) ==
    IF Len(seqs) = 0 THEN <<>> ELSE Head(seqs) \o Flatten(Tail(seqs))

DecDigits == "0123456789"
HexDigits == "0123456789ABCDEF"
HexLower  == "0123456789abcdef"

CharsOf(s) == {At(s, i) : i \in 1..Len(s)}

DigitChars == CharsOf(DecDigits)

IsDigit(c) == c \in DigitChars

AllDigits(s) == \A i \in 1..Len(s) : IsDigit(At(s, i))

DigitVal(c) == IndexOf(DecDigits, c) - 1

\* The decimal numeral of a natural number.
RECURSIVE NatToStr(_)
NatToStr(n) ==
    IF n < 10 THEN At(DecDigits, n + 1)
    ELSE NatToStr(n \div 10) \o At(DecDigits, (n % 10) + 1)

\* The value of a non-empty string of decimal digits.
RECURSIVE DigitsToNat(_)
DigitsToNat(s) ==
    IF Len(s) = 0 THEN 0
    ELSE DigitsToNat(SubSeq(s, 1, Len(s) - 1)) * 10 + DigitVal(At(s, Len(s)))

\* The longest prefix of decimal digits.
RECURSIVE DigitPrefix(_)
DigitPrefix(s) ==
    IF Len(s) > 0 /\ IsDigit(At(s, 1))
    THEN At(s, 1) \o DigitPrefix(DropFirst(s, 1))
    ELSE ""

RECURSIVE TrimLeft(_)
TrimLeft(s) == IF StartsWith(s, " ") THEN TrimLeft(DropFirst(s, 1)) ELSE s

RECURSIVE TrimRight(_)
TrimRight(s) == IF EndsWith(s, " ") THEN TrimRight(SubSeq(s, 1, Len(s) - 1)) ELSE s

Trim(s) == TrimRight(TrimLeft(s))

(***************************************************************************)
(* JavaScript values                                                       *)
(***************************************************************************)
Undef == [k |-> "undef"]
Null == [k |-> "null"]
NaN == [k |-> "nan"]
Bool(b) == [k |-> "bool", b |-> b]
Tenths(t) == [k |-> "num", n |-> t]
Num(n) == Tenths(n * 10)
Str(s) == [k |-> "str", v |-> s]
ArrX(elems, props) == [k |-> "arr", v |-> elems, x |-> props]
Arr(elems) == ArrX(elems, <<>>)
Obj(entries) == [k |-> "obj", e |-> entries]
EmptyObj == Obj(<<>>)

IsArray(val) == val.k = "arr"
IsObject(val) == val.k = "obj"

\* ToBoolean.
Truthy(val) ==
    CASE val.k = "undef" -> FALSE
      [] val.k = "null" -> FALSE
      [] val.k = "nan" -> FALSE
      [] val.k = "bool" -> val.b
      [] val.k = "num" -> val.n # 0
      [] val.k = "str" -> val.v # ""
      [] OTHER -> TRUE

\* Number.prototype.toString for a number held in tenths.
NumToStr(t) ==
    LET a == IF t < 0 THEN -t ELSE t
        sign == IF t < 0 THEN "-" ELSE ""
    IN  IF a % 10 = 0 THEN sign \o NatToStr(a \div 10)
        ELSE sign \o NatToStr(a \div 10) \o "." \o NatToStr(a % 10)

\* String(value).
RECURSIVE ToStr(_)
ToStr(val) ==
    CASE val.k = "undef" -> "undefined"
      [] val.k = "null" -> "null"
      [] val.k = "nan" -> "NaN"
      [] val.k = "bool" -> (IF val.b THEN "true" ELSE "false")
      [] val.k = "num" -> NumToStr(val.n)
      [] val.k = "str" -> val.v
      [] val.k = "arr" ->
           Join([i \in 1..Len(val.v) |->
                   IF val.v[i].k \in {"undef", "null"} THEN "" ELSE ToStr(val.v[i])],
                ",")
      [] OTHER -> "[object Object]"

\* The first digit of a fraction in tenths, or a non-zero tenth when only
\* later digits are non-zero, so that integrality is exact.
FracTenth(frac) ==
    IF Len(frac) = 0 THEN 0
    ELSE IF At(frac, 1) # "0" THEN DigitVal(At(frac, 1))
    ELSE IF \E i \in 1..Len(frac) : At(frac, i) # "0" THEN 1
    ELSE 0

\* digits "." digits, at least one digit in all.
Fraction(whole, frac) ==
    IF Len(whole) + Len(frac) = 0 \/ ~AllDigits(frac) THEN NaN
    ELSE Tenths(DigitsToNat(whole) * 10 + FracTenth(frac))

WholeAndRest(whole, rest) ==
    IF rest = "" THEN (IF whole = "" THEN NaN ELSE Tenths(DigitsToNat(whole) * 10))
    ELSE IF StartsWith(rest, ".") THEN Fraction(whole, DropFirst(rest, 1))
    ELSE NaN

Unsigned(u) == WholeAndRest(DigitPrefix(u), DropFirst(u, Len(DigitPrefix(u))))

Negate(n) == IF n.k = "num" THEN Tenths(-n.n) ELSE n

\* StringToNumber for decimal literals: optional sign, digits, optional
\* fraction; the empty (or blank) string is 0 and anything else is NaN.
Signed(t) ==
    IF t = "" THEN Num(0)
    ELSE IF StartsWith(t, "-") THEN Negate(Unsigned(DropFirst(t, 1)))
    ELSE IF StartsWith(t, "+") THEN Unsigned(DropFirst(t, 1))
    ELSE Unsigned(t)

StrToNum(s) == Signed(Trim(s))

\* Number(value).
ToNumber(val) ==
    CASE val.k = "undef" -> NaN
      [] val.k = "null" -> Num(0)
      [] val.k = "nan" -> NaN
      [] val.k = "bool" -> (IF val.b THEN Num(1) ELSE Num(0))
      [] val.k = "num" -> val
      [] val.k = "str" -> StrToNum(val.v)
      [] val.k = "arr" -> StrToNum(ToStr(val))
      [] OTHER -> NaN

\* Number.isInteger.
IsInteger(val) == val.k = "num" /\ val.n % 10 = 0

LeadingInt(ds) == IF ds = "" THEN NaN ELSE Num(DigitsToNat(ds))

SignedInt(t) ==
    IF StartsWith(t, "-") THEN Negate(LeadingInt(DigitPrefix(DropFirst(t, 1))))
    ELSE IF StartsWith(t, "+") THEN LeadingInt(DigitPrefix(DropFirst(t, 1)))
    ELSE LeadingInt(DigitPrefix(t))

\* parseInt(s, 10).
ParseInt(s) == SignedInt(TrimLeft(s))

(***************************************************************************)
(* Percent-encoding                                                        *)
(***************************************************************************)
\* The printable ASCII characters in code order: 0x20 to 0x5F, and 0x61 to
\* 0x7E (the grave accent, 0x60, cannot be written in a string and is outside
\* the model's alphabet).
AsciiLow == " !\"#$%&'()*+,-./0123456789:;<=>?@ABCDEFGHIJKLMNOPQRSTUVWXYZ[\\]^_"
AsciiHigh == "abcdefghijklmnopqrstuvwxyz{|}~"

\* The code of each character of the alphabet.
CharCodes ==
    [c \in CharsOf(AsciiLow) \cup CharsOf(AsciiHigh) |->
        IF Includes(AsciiLow, c) THEN IndexOf(AsciiLow, c) + 31
        ELSE IndexOf(AsciiHigh, c) + 96]

CharCode(c) == CharCodes[c]

\* String.fromCharCode for the codes of the alphabet; "" for any other code.
FromCharCode(n) ==
    IF n - 31 \in 1..Len(AsciiLow) THEN At(AsciiLow, n - 31)
    ELSE IF n - 96 \in 1..Len(AsciiHigh) THEN At(AsciiHigh, n - 96)
    ELSE ""

\* The characters encodeURIComponent leaves alone.
Unreserved == "ABCDEFGHIJKLMNOPQRSTUVWXYZabcdefghijklmnopqrstuvwxyz0123456789-_.!~*'()"

UnreservedChars == CharsOf(Unreserved)

\* The escape of each character of the alphabet.
Escapes ==
    [c \in DOMAIN CharCodes |->
        IF c \in UnreservedChars THEN c
        ELSE "%" \o At(HexDigits, (CharCodes[c] \div 16) + 1)
                 \o At(HexDigits, (CharCodes[c] % 16) + 1)]

EscapeChar(c) == Escapes[c]

RECURSIVE EncodeURIComponent(_)
RECURSIVE EncodeAt(_, _)
\* s with the character at i escaped, and the rest encoded; s when i = 0.
EncodeAt(s, i) ==
    IF i = 0 THEN s
    ELSE SubSeq(s, 1, i - 1) \o EscapeChar(At(s, i)) \o EncodeURIComponent(DropFirst(s, i))

\* encodeURIComponent on printable ASCII.
EncodeURIComponent(s) ==
    EncodeAt(s, First({i \in 1..Len(s) : At(s, i) \notin UnreservedChars}))

HexChars == CharsOf(HexDigits) \cup CharsOf(HexLower)

IsHex(c) == c \in HexChars

HexVal(c) ==
    IF Includes(HexDigits, c) THEN IndexOf(HexDigits, c) - 1 ELSE IndexOf(HexLower, c) - 1

\* The percent-decoding of the urlencoded parser: %XX becomes the character
\* with that code; a % that is not followed by two hex digits stays.  Codes
\* outside printable ASCII are left as written.
RECURSIVE PercentDecode(_)
RECURSIVE DecodeAt(_, _)
\* s decoded, i being the position of its first "%" (0 when there is none).
DecodeAt(s, i) ==
    IF i = 0 THEN s
    ELSE IF /\ Len(s) >= i + 2
            /\ IsHex(At(s, i + 1))
            /\ IsHex(At(s, i + 2))
            /\ FromCharCode(HexVal(At(s, i + 1)) * 16 + HexVal(At(s, i + 2))) # ""
         THEN SubSeq(s, 1, i - 1)
                \o FromCharCode(HexVal(At(s, i + 1)) * 16 + HexVal(At(s, i + 2)))
                \o PercentDecode(DropFirst(s, i + 2))
         ELSE SubSeq(s, 1, i) \o PercentDecode(DropFirst(s, i))

PercentDecode(s) == DecodeAt(s, IndexOf(s, "%"))

RECURSIVE PlusToSpace(_)
RECURSIVE SpaceAt(_, _)
SpaceAt(s, i) ==
    IF i = 0 THEN s ELSE SubSeq(s, 1, i - 1) \o " " \o PlusToSpace(DropFirst(s, i))

PlusToSpace(s) == SpaceAt(s, IndexOf(s, "+"))

\* new URLSearchParams(queryString).entries(): a leading "?" is dropped, the
\* string is split on "&", empty pieces are skipped, each piece is split at
\* its first "=", and both sides are decoded.
URLSearchParams(queryString) ==
    LET q == IF StartsWith(queryString, "?") THEN DropFirst(queryString, 1) ELSE queryString
        pieces == SelectSeq(Split(q, "&"), LAMBDA piece : piece # "")
        pair(piece) ==
            LET i == IndexOf(piece, "=")
                name == IF i = 0 THEN piece ELSE SubSeq(piece, 1, i - 1)
                value == IF i = 0 THEN "" ELSE DropFirst(piece, i)
            IN  <<PercentDecode(PlusToSpace(name)), PercentDecode(PlusToSpace(value))>>
    IN  [i \in 1..Len(pieces) |-> pair(pieces[i])]

(***************************************************************************)
(* Plain objects: own properties in enumeration order (array-index keys    *)
(* ascending, then the other keys in insertion order)                      *)
(***************************************************************************)
\* A canonical array index: the numeral of a natural number.
IsIndexKey(key) == key # "" /\ AllDigits(key) /\ NatToStr(DigitsToNat(key)) = key

KeyPos(entries, key) ==
    IF \E i \in 1..Len(entries) : entries[i][1] = key
    THEN CHOOSE i \in 1..Len(entries) : entries[i][1] = key
    ELSE 0

HasOwn(obj, key) == KeyPos(obj.e, key) > 0

\* Where a new key goes among the own entries.
InsertPos(entries, key) ==
    IF IsIndexKey(key)
    THEN 1 + Cardinality({i \in 1..Len(entries) :
                            /\ IsIndexKey(entries[i][1])
                            /\ DigitsToNat(entries[i][1]) < DigitsToNat(key)})
    ELSE Len(entries) + 1

\* obj[key] = val on an ordinary object.
SetEntry(entries, key, val) ==
    LET p == KeyPos(entries, key)
        q == InsertPos(entries, key)
    IN  IF p > 0 THEN [entries EXCEPT ![p] = <<key, val>>]
        ELSE SubSeq(entries, 1, q - 1) \o <<(<<key, val>>)>> \o SubSeq(entries, q, Len(entries))

ObjSet(obj, key, val) == Obj(SetEntry(obj.e, key, val))

\* The object an object literal, or a series of assignments, builds.
RECURSIVE FromEntries(_)
FromEntries(pairs) ==
    IF Len(pairs) = 0 THEN <<>>
    ELSE SetEntry(FromEntries(SubSeq(pairs, 1, Len(pairs) - 1)),
                  pairs[Len(pairs)][1], pairs[Len(pairs)][2])

\* An enumeration of the own properties from the last to the first.
entriesBackwards(obj) == [i \in 1..Len(obj.e) |-> obj.e[Len(obj.e) + 1 - i]]

\* Object.entries(obj).
ObjectEntries(obj) == obj.e

\* obj[key] for an own property; undefined when there is none.
GetOwn(obj, key) ==
    IF HasOwn(obj, key) THEN obj.e[KeyPos(obj.e, key)][2] ELSE Undef

(***************************************************************************)
(* utils.ts: the encoder                                                   *)
(***************************************************************************)
DEFAULT_OPTIONS ==
    [encodeValues |-> TRUE,
     arrayFormat |-> "repeat",
     arraySeparator |-> ",",
     skipNulls |-> TRUE,
     skipEmptyString |-> TRUE]

encoded(stringValue, encode) ==
    IF encode THEN EncodeURIComponent(stringValue) ELSE stringValue

encodeValue(value, encode) == encoded(ToStr(value), encode)

\* A skip predicate that drops every falsy value, 0 and false included.
skipFalsy(value, options) == ~Truthy(value)

shouldSkipValue(value, options) ==
    \/ options.skipNulls /\ value.k \in {"null", "undef"}
    \/ options.skipEmptyString /\ value = Str("")

\* A formatter for which comma is separator under another name: both join
\* with the configured arraySeparator.
separatorTokens(k, es, options) ==
    CASE options.arrayFormat = "brackets" ->
           [i \in 1..Len(es) |-> k \o "[]=" \o es[i]]
      [] options.arrayFormat = "indices" ->
           [i \in 1..Len(es) |-> k \o "[" \o NatToStr(i - 1) \o "]=" \o es[i]]
      [] options.arrayFormat \in {"comma", "separator"} ->
           <<k \o "=" \o Join(es, options.arraySeparator)>>
      [] OTHER ->
           [i \in 1..Len(es) |-> k \o "=" \o es[i]]

\* The tokens of one array value, from the encoded key and encoded elements.
arrayTokens(k, es, options) ==
    CASE options.arrayFormat = "brackets" ->
           [i \in 1..Len(es) |-> k \o "[]=" \o es[i]]
      [] options.arrayFormat = "indices" ->
           [i \in 1..Len(es) |-> k \o "[" \o NatToStr(i - 1) \o "]=" \o es[i]]
      [] options.arrayFormat = "comma" ->
           <<k \o "=" \o Join(es, ",")>>
      [] options.arrayFormat = "separator" ->
           <<k \o "=" \o Join(es, options.arraySeparator)>>
      [] OTHER ->
           [i \in 1..Len(es) |-> k \o "=" \o es[i]]

\* values is the sequence of the array's elements.
formatArrayValue(key, values, options) ==
    arrayTokens(encodeValue(Str(key), options.encodeValues),
                [i \in 1..Len(values) |-> encodeValue(values[i], options.encodeValues)],
                options)

\* A normalization that renames nothing.
unchangedKey(str) == str

camelToSnakeCase(str) == IF str = "searchFields" THEN "search_fields" ELSE str

\* The tokens of one entry of a nested object, under its flattened key.
nestedEntry(flatKey, nestedValue, options) ==
    IF shouldSkipValue(nestedValue, options) THEN <<>>
    ELSE IF IsArray(nestedValue)
    THEN formatArrayValue(flatKey, nestedValue.v, options)
    ELSE <<encodeValue(Str(flatKey), options.encodeValues) \o "="
             \o encodeValue(nestedValue, options.encodeValues)>>

\* The tokens of the entries of one nested object.
nestedParams(queryKey, es, options) ==
    Flatten([i \in 1..Len(es) |->
               nestedEntry(queryKey \o "[" \o es[i][1] \o "]", es[i][2], options)])

\* The tokens of one top-level entry, under its query key.
keyParams(queryKey, value, options) ==
    IF shouldSkipValue(value, options) THEN <<>>
    ELSE IF IsArray(value)
    THEN (IF Len(value.v) > 0 THEN formatArrayValue(queryKey, value.v, options) ELSE <<>>)
    ELSE IF IsObject(value)
    THEN nestedParams(queryKey, ObjectEntries(value), options)
    ELSE <<encodeValue(Str(queryKey), options.encodeValues) \o "="
             \o encodeValue(value, options.encodeValues)>>

\* The tokens one top-level entry contributes.
entryParams(key, value, options) == keyParams(camelToSnakeCase(key), value, options)

entriesParams(es, options) ==
    Flatten([i \in 1..Len(es) |-> entryParams(es[i][1], es[i][2], options)])

objectToQueryParams(obj, options) == entriesParams(ObjectEntries(obj), options)

\* A join that always leads with the URL's separator.
questionJoin(queryParams) == "?" \o Join(queryParams, "&")

joinParams(queryParams) ==
    IF Len(queryParams) > 0 THEN Join(queryParams, "&") ELSE ""

buildQueryString(params, options) == joinParams(objectToQueryParams(params, options))

(***************************************************************************)
(* utils.ts: validation.  The result is the message of the error thrown,   *)
(* or "" when the call returns.                                            *)
(***************************************************************************)
PageError == "Page must be a positive integer"
LimitError == "Limit must be a positive integer"

\* !Number.isInteger(n) || n < 1 for n = Number(value).
belowOne(n) == ~IsInteger(n) \/ n.n < 10

notPositiveInteger(value) == belowOne(ToNumber(value))

(***************************************************************************)
(* Property access on JavaScript values.  Built-in objects reached through *)
(* the prototype chain (Object.prototype, Array.prototype.push, ...) are   *)
(* values of kind "native" named by their path; shared holds the           *)
(* properties a program has written on them: an object keyed by the        *)
(* native's name whose values are objects.                                 *)
(***************************************************************************)
Native(name) == [k |-> "native", v |-> name]
Hole == [k |-> "hole"]

TypeError == "TypeError"
RangeError == "RangeError"

ObjectProtoKeys ==
    {"constructor", "__proto__", "toString", "toLocaleString", "valueOf",
     "hasOwnProperty", "isPrototypeOf", "propertyIsEnumerable",
     "__defineGetter__", "__defineSetter__", "__lookupGetter__", "__lookupSetter__"}

ArrayProtoKeys ==
    {"constructor", "push", "pop", "shift", "unshift", "slice", "splice", "concat",
     "join", "reverse", "sort", "map", "filter", "reduce", "reduceRight", "forEach",
     "some", "every", "find", "findIndex", "indexOf", "lastIndexOf", "includes",
     "fill", "keys", "values", "entries", "flat", "flatMap", "at", "copyWithin",
     "toString", "toLocaleString"}

StringProtoKeys ==
    {"constructor", "charAt", "charCodeAt", "codePointAt", "concat", "endsWith",
     "includes", "indexOf", "lastIndexOf", "match", "matchAll", "normalize",
     "padEnd", "padStart", "repeat", "replace", "search", "slice", "split",
     "startsWith", "substring", "substr", "toLowerCase", "toUpperCase", "trim",
     "trimStart", "trimEnd", "at", "toString", "valueOf", "localeCompare"}

NumberProtoKeys ==
    {"constructor", "toString", "toLocaleString", "valueOf", "toFixed",
     "toExponential", "toPrecision"}

BooleanProtoKeys == {"constructor", "toString", "valueOf"}

FunctionProtoKeys == {"constructor", "call", "apply", "bind", "toString", "name", "length"}

Constructors == {"Object", "Array", "String", "Number", "Boolean", "Function"}

ProtoKeys(proto) ==
    CASE proto = "Object.prototype" -> ObjectProtoKeys
      [] proto = "Array.prototype" -> ArrayProtoKeys
      [] proto = "String.prototype" -> StringProtoKeys
      [] proto = "Number.prototype" -> NumberProtoKeys
      [] proto = "Boolean.prototype" -> BooleanProtoKeys
      [] proto = "Function.prototype" -> FunctionProtoKeys
      [] OTHER -> {}

\* The prototype chain of a value.
ProtoChain(val) ==
    CASE val.k = "obj" -> <<"Object.prototype">>
      [] val.k = "arr" -> <<"Array.prototype", "Object.prototype">>
      [] val.k = "str" -> <<"String.prototype", "Object.prototype">>
      [] val.k \in {"num", "nan"} -> <<"Number.prototype", "Object.prototype">>
      [] val.k = "bool" -> <<"Boolean.prototype", "Object.prototype">>
      [] val.k = "native" ->
           (IF val.v = "Object.prototype" THEN <<>>
            ELSE IF EndsWith(val.v, ".prototype") /\ ~Includes(DropFirst(val.v, IndexOf(val.v, ".")), ".")
            THEN <<"Object.prototype">>
            ELSE <<"Function.prototype", "Object.prototype">>)
      [] OTHER -> <<>>

\* The properties written on the native called name.
SharedOf(shared, name) ==
    IF HasOwn(shared, name) THEN GetOwn(shared, name) ELSE EmptyObj

\* The value of key in the prototype called proto, for a receiver whose
\* chain starts at first: a property written there, or a built-in.
ProtoMember(proto, key, first, shared) ==
    IF HasOwn(SharedOf(shared, proto), key) THEN GetOwn(SharedOf(shared, proto), key)
    ELSE IF key \notin ProtoKeys(proto) THEN Undef
    ELSE IF key = "__proto__" THEN Native(first)
    ELSE IF key = "constructor" THEN Native(SubSeq(proto, 1, IndexOf(proto, ".") - 1))
    ELSE Native(proto \o "." \o key)

RECURSIVE ChainLookup(_, _, _, _)
ChainLookup(chain, key, first, shared) ==
    IF Len(chain) = 0 THEN Undef
    ELSE IF \/ HasOwn(SharedOf(shared, Head(chain)), key)
            \/ key \in ProtoKeys(Head(chain))
    THEN ProtoMember(Head(chain), key, first, shared)
    ELSE ChainLookup(Tail(chain), key, first, shared)

Inherited(val, key, shared) ==
    LET chain == ProtoChain(val)
    IN  IF Len(chain) = 0 THEN Undef ELSE ChainLookup(chain, key, chain[1], shared)

\* Whether val has key as an own property, and its value.
OwnProp(val, key, shared) ==
    CASE val.k = "obj" ->
           [has |-> HasOwn(val, key), val |-> GetOwn(val, key)]
      [] val.k = "arr" ->
           (IF IsIndexKey(key) /\ DigitsToNat(key) < Len(val.v)
            THEN [has |-> val.v[DigitsToNat(key) + 1] # Hole,
                  val |-> val.v[DigitsToNat(key) + 1]]
            ELSE IF key = "length" THEN [has |-> TRUE, val |-> Num(Len(val.v))]
            ELSE [has |-> HasOwn(Obj(val.x), key), val |-> GetOwn(Obj(val.x), key)])
      [] val.k = "str" ->
           (IF IsIndexKey(key) /\ DigitsToNat(key) < Len(val.v)
            THEN [has |-> TRUE, val |-> Str(At(val.v, DigitsToNat(key) + 1))]
            ELSE IF key = "length" THEN [has |-> TRUE, val |-> Num(Len(val.v))]
            ELSE [has |-> FALSE, val |-> Undef])
      [] val.k = "native" ->
           (IF HasOwn(SharedOf(shared, val.v), key)
            THEN [has |-> TRUE, val |-> GetOwn(SharedOf(shared, val.v), key)]
            ELSE IF key = "__proto__" /\ val.v = "Object.prototype"
            THEN [has |-> TRUE, val |-> Null]
            ELSE IF key \in ProtoKeys(val.v)
            THEN [has |-> TRUE, val |-> ProtoMember(val.v, key, "Object.prototype", shared)]
            ELSE IF key = "prototype" /\ val.v \in Constructors
            THEN [has |-> TRUE, val |-> Native(val.v \o ".prototype")]
            ELSE [has |-> FALSE, val |-> Undef])
      [] OTHER -> [has |-> FALSE, val |-> Undef]

ownOrInherited(own, val, key, shared) ==
    IF own.has THEN own.val ELSE Inherited(val, key, shared)

\* val[key].
GetProp(val, key, shared) == ownOrInherited(OwnProp(val, key, shared), val, key, shared)

\* arr[i - 1] = newVal: the array grows with holes up to the index.
SetElement(val, i, newVal) ==
    ArrX([j \in 1..(IF i > Len(val.v) THEN i ELSE Len(val.v)) |->
            IF j = i THEN newVal ELSE IF j <= Len(val.v) THEN val.v[j] ELSE Hole],
         val.x)

\* arr.length = n.
SetLength(val, n, shared) ==
    IF IsInteger(n) /\ n.n >= 0
    THEN [err |-> "",
          val |-> ArrX([j \in 1..(n.n \div 10) |->
                          IF j <= Len(val.v) THEN val.v[j] ELSE Hole], val.x),
          shared |-> shared]
    ELSE [err |-> RangeError, val |-> val, shared |-> shared]

\* val[key] = newVal in strict mode: [err, val, shared], the error thrown
\* ("" when none), the receiver afterwards and the natives' properties.
\* Assigning __proto__ never creates an own property: it goes to the
\* inherited setter, which leaves the own properties as they are.
SetProp(val, key, newVal, shared) ==
    CASE val.k = "obj" ->
           (IF key = "__proto__" /\ ~HasOwn(val, key)
            THEN [err |-> "", val |-> val, shared |-> shared]
            ELSE [err |-> "", val |-> ObjSet(val, key, newVal), shared |-> shared])
      [] val.k = "arr" ->
           (IF IsIndexKey(key)
            THEN [err |-> "", val |-> SetElement(val, DigitsToNat(key) + 1, newVal),
                  shared |-> shared]
            ELSE IF key = "length"
            THEN SetLength(val, ToNumber(newVal), shared)
            ELSE IF key = "__proto__"
            THEN [err |-> "", val |-> val, shared |-> shared]
            ELSE [err |-> "", val |-> ArrX(val.v, SetEntry(val.x, key, newVal)),
                  shared |-> shared])
      [] val.k = "native" ->
           (IF key = "__proto__"
            THEN [err |-> "", val |-> val, shared |-> shared]
            ELSE [err |-> "", val |-> val,
                  shared |-> ObjSet(shared, val.v, ObjSet(SharedOf(shared, val.v), key, newVal))])
      [] OTHER -> [err |-> TypeError, val |-> val, shared |-> shared]

\* val.push(item): [err, val].  Only the built-in push of an array appends;
\* any other value of the push property is not a function the call can use.
CallPush(val, item, shared) ==
    IF IsArray(val) /\ GetProp(val, "push", shared) = Native("Array.prototype.push")
    THEN [err |-> "", val |-> ArrX(Append(val.v, item), val.x)]
    ELSE [err |-> TypeError, val |-> val]

(***************************************************************************)
(* utils.ts: validatePaginationParams                                      *)
(***************************************************************************)
\* The checks on the values read as params.page and params.limit.
validatePageLimit(page, limit) ==
    IF page # Undef /\ notPositiveInteger(page) THEN PageError
    ELSE IF limit # Undef /\ notPositiveInteger(limit) THEN LimitError
    ELSE ""

\* Reading a property of null or undefined throws.
validatePaginationParams(params, shared) ==
    IF params.k \in {"null", "undef"} THEN TypeError
    ELSE validatePageLimit(GetProp(params, "page", shared), GetProp(params, "limit", shared))

(***************************************************************************)
(* index.ts: the entry points.  A call's outcome is [err, val]: err is the *)
(* message of the error thrown ("" when the call returns) and val the      *)
(* value returned.                                                         *)
(***************************************************************************)
Returns(val) == [err |-> "", val |-> val]
Throws(msg) == [err |-> msg, val |-> Undef]

\* { ...DEFAULT_OPTIONS, ...options } for an options record that may name
\* only some of the fields.
mergeOptions(options) ==
    [f \in DOMAIN DEFAULT_OPTIONS |->
        IF f \in DOMAIN options THEN options[f] ELSE DEFAULT_OPTIONS[f]]

\* A call that goes on whatever validatePaginationParams did.
returnsAnyway(err, val) == Returns(val)

\* What a call does after validatePaginationParams: rethrow, or go on.
afterValidation(err, val) == IF err # "" THEN Throws(err) ELSE Returns(val)

toQueryString(params, options, shared) ==
    afterValidation(validatePaginationParams(params, shared),
                    Str(buildQueryString(params, mergeOptions(options))))

\* A join that puts '?' before the query string whatever baseUrl holds.
alwaysQuestion(baseUrl, queryString) ==
    IF queryString = "" THEN baseUrl ELSE baseUrl \o "?" \o queryString

\* baseUrl, or baseUrl and queryString with '?' between, or '&' when baseUrl
\* has a '?'.
joinUrl(baseUrl, queryString) ==
    IF queryString = "" THEN baseUrl
    ELSE baseUrl \o (IF Includes(baseUrl, "?") THEN "&" ELSE "?") \o queryString

urlAfter(baseUrl, built) ==
    IF built.err # "" THEN built ELSE Returns(Str(joinUrl(baseUrl, built.val.v)))

toUrl(baseUrl, params, options, shared) ==
    urlAfter(baseUrl, toQueryString(params, options, shared))

\* { ...target, ...source }: the own enumerable properties of source, in
\* enumeration order, defined on a copy of target.
RECURSIVE defineAll(_, _)
defineAll(target, pairs) ==
    IF Len(pairs) = 0 THEN target
    ELSE defineAll(ObjSet(target, pairs[1][1], pairs[1][2]), Tail(pairs))

OwnEnumerable(source) ==
    CASE source.k = "obj" -> source.e
      [] source.k = "arr" ->
           SelectSeq([i \in 1..Len(source.v) |-> <<NatToStr(i - 1), source.v[i]>>],
                     LAMBDA p : p[2] # Hole) \o source.x
      [] source.k = "str" ->
           [i \in 1..Len(source.v) |-> <<NatToStr(i - 1), Str(At(source.v, i))>>]
      [] OTHER -> <<>>

Spread(target, source) == defineAll(target, OwnEnumerable(source))

\* { ...config, params: { ...config.params, ...params } }
axiosConfig(params, config, shared) ==
    ObjSet(Spread(EmptyObj, config), "params",
           Spread(Spread(EmptyObj, GetProp(config, "params", shared)), params))

\* toAxiosConfig(params, config = {})
toAxiosConfig(params, config, shared) ==
    afterValidation(validatePaginationParams(params, shared),
                    axiosConfig(params, IF config = Undef THEN EmptyObj ELSE config, shared))

\* { url, config: { method: 'GET', ...config } }
fetchConfig(url, config) ==
    IF url.err # "" THEN url
    ELSE Returns(Obj(<< <<"url", url.val>>,
                        <<"config", Spread(Obj(<< <<"method", Str("GET")>> >>), config)>> >>))

\* toFetchConfig(baseUrl, params, config = {}, options)
toFetchConfig(baseUrl, params, config, options, shared) ==
    fetchConfig(toUrl(baseUrl, params, options, shared),
                IF config = Undef THEN EmptyObj ELSE config)

(***************************************************************************)
(* JSON.parse on texts of objects, arrays, strings without escapes,        *)
(* decimal numbers without exponent, true, false and null, with spaces     *)
(* between tokens.  A parse is [ok, val, next]: whether a value was read,  *)
(* the value, and the position after it.                                   *)
(***************************************************************************)
SyntaxError == "SyntaxError"

JsonFail == [ok |-> FALSE, val |-> Undef, next |-> 0]

JsonOk(val, next) == [ok |-> TRUE, val |-> val, next |-> next]

\* The character at position i, "" past the end.
CharAt(s, i) == IF i >= 1 /\ i <= Len(s) THEN At(s, i) ELSE ""

RECURSIVE SkipSpaces(_, _)
SkipSpaces(s, i) == IF CharAt(s, i) = " " THEN SkipSpaces(s, i + 1) ELSE i

jsonWord(s, i, word, val) ==
    IF i + Len(word) - 1 <= Len(s) /\ SubSeq(s, i, i + Len(word) - 1) = word
    THEN JsonOk(val, i + Len(word))
    ELSE JsonFail

stringUpTo(s, i, close) ==
    IF close = 0 THEN JsonFail ELSE JsonOk(Str(SubSeq(s, i + 1, close - 1)), close + 1)

\* A string that opens at i.
jsonString(s, i) ==
    IF CharAt(s, i) = "\"" THEN stringUpTo(s, i, IndexFrom(s, "\"", i + 1)) ELSE JsonFail

RECURSIVE numberEnd(_, _)
numberEnd(s, i) ==
    IF IsDigit(CharAt(s, i)) \/ CharAt(s, i) \in {"-", "."} THEN numberEnd(s, i + 1) ELSE i

\* int: 0, or digits that do not begin with 0.
IsJsonInt(t) == t # "" /\ AllDigits(t) /\ (Len(t) = 1 \/ At(t, 1) # "0")

IsJsonUnsigned(t) ==
    IF Includes(t, ".")
    THEN /\ IsJsonInt(SubSeq(t, 1, IndexOf(t, ".") - 1))
         /\ DropFirst(t, IndexOf(t, ".")) # ""
         /\ AllDigits(DropFirst(t, IndexOf(t, ".")))
    ELSE IsJsonInt(t)

IsJsonNumber(t) ==
    IF StartsWith(t, "-") THEN IsJsonUnsigned(DropFirst(t, 1)) ELSE IsJsonUnsigned(t)

numberToken(t, next) == IF IsJsonNumber(t) THEN JsonOk(StrToNum(t), next) ELSE JsonFail

jsonNumber(s, i) == numberToken(SubSeq(s, i, numberEnd(s, i) - 1), numberEnd(s, i))

RECURSIVE jsonValue(_, _), jsonMembers(_, _, _), jsonElements(_, _, _)

\* After a member: "," and the next member, or "}".
memberEnd(s, entries, sep) ==
    IF CharAt(s, sep) = "," THEN jsonMembers(s, SkipSpaces(s, sep + 1), entries)
    ELSE IF CharAt(s, sep) = "}" THEN JsonOk(Obj(entries), sep + 1)
    ELSE JsonFail

memberValue(s, entries, key, v) ==
    IF v.ok THEN memberEnd(s, SetEntry(entries, key, v.val), SkipSpaces(s, v.next))
    ELSE JsonFail

memberColon(s, entries, key, colon) ==
    IF CharAt(s, colon) = ":"
    THEN memberValue(s, entries, key, jsonValue(s, SkipSpaces(s, colon + 1)))
    ELSE JsonFail

memberKey(s, entries, key) ==
    IF key.ok THEN memberColon(s, entries, key.val.v, SkipSpaces(s, key.next)) ELSE JsonFail

\* "key": value members from position i on.
jsonMembers(s, i, entries) == memberKey(s, entries, jsonString(s, i))

jsonObject(s, i) ==
    IF CharAt(s, i) = "}" THEN JsonOk(EmptyObj, i + 1) ELSE jsonMembers(s, i, <<>>)

\* After an element: "," and the next element, or "]".
elementEnd(s, elems, sep) ==
    IF CharAt(s, sep) = "," THEN jsonElements(s, SkipSpaces(s, sep + 1), elems)
    ELSE IF CharAt(s, sep) = "]" THEN JsonOk(Arr(elems), sep + 1)
    ELSE JsonFail

elementValue(s, elems, v) ==
    IF v.ok THEN elementEnd(s, Append(elems, v.val), SkipSpaces(s, v.next)) ELSE JsonFail

jsonElements(s, i, elems) == elementValue(s, elems, jsonValue(s, i))

jsonArray(s, i) ==
    IF CharAt(s, i) = "]" THEN JsonOk(Arr(<<>>), i + 1) ELSE jsonElements(s, i, <<>>)

\* The value that starts at position i.
jsonValue(s, i) ==
    CASE CharAt(s, i) = "{" -> jsonObject(s, SkipSpaces(s, i + 1))
      [] CharAt(s, i) = "[" -> jsonArray(s, SkipSpaces(s, i + 1))
      [] CharAt(s, i) = "\"" -> jsonString(s, i)
      [] CharAt(s, i) = "t" -> jsonWord(s, i, "true", Bool(TRUE))
      [] CharAt(s, i) = "f" -> jsonWord(s, i, "false", Bool(FALSE))
      [] CharAt(s, i) = "n" -> jsonWord(s, i, "null", Null)
      [] IsDigit(CharAt(s, i)) \/ CharAt(s, i) = "-" -> jsonNumber(s, i)
      [] OTHER -> JsonFail

\* The whole text is one value.
wholeText(text, parsed) ==
    IF parsed.ok /\ SkipSpaces(text, parsed.next) = Len(text) + 1
    THEN Returns(parsed.val)
    ELSE Throws(SyntaxError)

\* JSON.parse(text)
JSONParse(text) == wholeText(text, jsonValue(text, SkipSpaces(text, 1)))

(***************************************************************************)
(* index.ts: fromJSON and fromObject                                       *)
(***************************************************************************)
InvalidJSON == "Invalid JSON for pagination parameters"
InvalidObject == "Invalid object for pagination parameters"

\* String(error): the error's name and message; an error of the runtime is
\* known by its name alone.
ErrorText(err) == IF err \in {PageError, LimitError} THEN "Error: " \o err ELSE err

\* throw new Error(`Invalid JSON for pagination parameters: ${error}`)
rethrown(err) == Throws(InvalidJSON \o ": " \o ErrorText(err))

\* The try block once JSON.parse has returned.
validatedJSON(parsed, err) == IF err # "" THEN rethrown(err) ELSE Returns(parsed)

parsedJSON(parsed, shared) ==
    IF parsed.err # "" THEN rethrown(parsed.err)
    ELSE validatedJSON(parsed.val, validatePaginationParams(parsed.val, shared))

fromJSON(text, shared) == parsedJSON(JSONParse(text), shared)

\* typeof obj
TypeOf(val) ==
    CASE val.k \in {"obj", "arr", "null"} -> "object"
      [] val.k = "undef" -> "undefined"
      [] val.k = "bool" -> "boolean"
      [] val.k \in {"num", "nan"} -> "number"
      [] val.k = "str" -> "string"
      [] OTHER -> "function"

fromObject(obj, shared) ==
    IF TypeOf(obj) # "object" \/ obj = Null THEN Throws(InvalidObject)
    ELSE afterValidation(validatePaginationParams(obj, shared), obj)

(***************************************************************************)
(* utils.ts: parseSortString                                               *)
(***************************************************************************)
UpperCase == "ABCDEFGHIJKLMNOPQRSTUVWXYZ"

LowerCase == "abcdefghijklmnopqrstuvwxyz"

lowerChar(c) == IF Includes(UpperCase, c) THEN At(LowerCase, IndexOf(UpperCase, c)) ELSE c

\* String.prototype.toLowerCase on ASCII text.
toLowerCase(s) == Join([i \in 1..Len(s) |-> lowerChar(At(s, i))], "")

SortOf(field, direction) == Obj(<< <<"field", Str(field)>>, <<"direction", Str(direction)>> >>)

\* const [field, direction] = parts: the first two parts, the others unread.
fieldAndDirection(parts) ==
    SortOf(parts[1], IF toLowerCase(parts[2]) = "desc" THEN "desc" ELSE "asc")

parseSortString(sortStr) ==
    IF StartsWith(sortStr, "-") THEN SortOf(DropFirst(sortStr, 1), "desc")
    ELSE IF Includes(sortStr, ":") THEN fieldAndDirection(Split(sortStr, ":"))
    ELSE SortOf(sortStr, "asc")

(***************************************************************************)
(* utils.ts: mergeParams                                                   *)
(***************************************************************************)
\* [...arr]: the elements, a hole read as undefined.
Elements(arr) == [i \in 1..Len(arr.v) |-> IF arr.v[i] = Hole THEN Undef ELSE arr.v[i]]

\* The value mergeParams stores at a key that holds existing.
mergedValue(existing, value) ==
    IF IsArray(value) /\ IsArray(existing)
    THEN Arr(Elements(existing) \o Elements(value))
    ELSE IF TypeOf(value) = "object" /\ TypeOf(existing) = "object" /\ ~IsArray(value)
    THEN Spread(Spread(EmptyObj, existing), value)
    ELSE value

\* The body of the inner loop.
mergeEntry(result, key, value, shared) ==
    IF value # Undef /\ value # Null
    THEN SetProp(result, key, mergedValue(GetProp(result, key, shared), value), shared).val
    ELSE result

RECURSIVE mergeEntries(_, _, _)
mergeEntries(result, es, shared) ==
    IF Len(es) = 0 THEN result
    ELSE mergeEntries(mergeEntry(result, es[1][1], es[1][2], shared), Tail(es), shared)

RECURSIVE mergeObjects(_, _, _)
mergeObjects(result, paramObjects, shared) ==
    IF Len(paramObjects) = 0 THEN result
    ELSE mergeObjects(mergeEntries(result, ObjectEntries(paramObjects[1]), shared),
                      Tail(paramObjects), shared)

\* mergeParams(...paramObjects)
mergeParams(paramObjects, shared) == mergeObjects(EmptyObj, paramObjects, shared)

(***************************************************************************)
(* index.ts: fromQueryString.  The loop's state is [params, shared, err]:  *)
(* the object under construction, the natives' properties, and the error   *)
(* thrown so far ("" when none).                                           *)
(***************************************************************************)
storedIn(set, holder) == [val |-> set.val, shared |-> set.shared]

\* Where newVal, the new state of the value read as holder[key], is kept: in
\* the holder's own property, or in the prototype the property came from.
StoreBack(holder, key, newVal, shared) ==
    LET chain == ProtoChain(holder)
        from == {i \in 1..Len(chain) : HasOwn(SharedOf(shared, chain[i]), key)}
        first == CHOOSE i \in from : \A j \in from : i <= j
    IN  IF OwnProp(holder, key, shared).has
        THEN storedIn(SetProp(holder, key, newVal, shared), holder)
        ELSE IF from # {}
        THEN [val |-> holder,
              shared |-> ObjSet(shared, chain[first],
                                ObjSet(SharedOf(shared, chain[first]), key, newVal))]
        ELSE [val |-> holder, shared |-> shared]

\* key.match(/^([^\[]+)\[(\d+)\]$/): whether it matches, and the base key.
indexMatch(key) ==
    LET i == IndexOf(key, "[")
        inner == SubSeq(key, i + 1, Len(key) - 1)
    IN  [ok |-> i > 1 /\ EndsWith(key, "]") /\ inner # "" /\ AllDigits(inner),
         baseKey |-> SubSeq(key, 1, i - 1)]

\* key.match(/^([^\[]+)\[([^\]]+)\]\[\]$/).
nestedArrayMatch(key) ==
    LET i == IndexOf(key, "[")
        inner == SubSeq(key, i + 1, Len(key) - 3)
    IN  [ok |-> i > 1 /\ EndsWith(key, "][]") /\ inner # "" /\ ~Includes(inner, "]"),
         baseKey |-> SubSeq(key, 1, i - 1),
         nestedKey |-> inner]

\* key.match(/^([^\[]+)\[([^\]]+)\]$/).
nestedObjectMatch(key) ==
    LET i == IndexOf(key, "[")
        inner == SubSeq(key, i + 1, Len(key) - 1)
    IN  [ok |-> i > 1 /\ EndsWith(key, "]") /\ inner # "" /\ ~Includes(inner, "]"),
         baseKey |-> SubSeq(key, 1, i - 1),
         nestedKey |-> inner]

Failed(st, msg) == [st EXCEPT !.err = msg]

Stored(st, back) == [st EXCEPT !.params = back.val, !.shared = back.shared]

\* if (!params[baseKey]) params[baseKey] = fresh: the state afterwards.
ensureBase(st, baseKey, fresh) ==
    IF Truthy(GetProp(st.params, baseKey, st.shared)) THEN st
    ELSE [st EXCEPT !.params = SetProp(st.params, baseKey, fresh, st.shared).val]

\* The state once the holder read as params[baseKey] has become set.val.
withHolder(st, baseKey, set) ==
    IF set.err # "" THEN Failed(st, set.err)
    ELSE IF set.val.k = "native" THEN [st EXCEPT !.shared = set.shared]
    ELSE Stored(st, StoreBack(st.params, baseKey, set.val, set.shared))

pushDone(st, baseKey, pushed) ==
    IF pushed.err # "" THEN Failed(st, pushed.err)
    ELSE Stored(st, StoreBack(st.params, baseKey, pushed.val, st.shared))

\* params[baseKey].push(value)
pushInto(st, baseKey, value) ==
    pushDone(st, baseKey,
             CallPush(GetProp(st.params, baseKey, st.shared), Str(value), st.shared))

\* if (!params[baseKey]) params[baseKey] = []; params[baseKey].push(value)
pushToBase(st, baseKey, value) ==
    pushInto(ensureBase(st, baseKey, Arr(<<>>)), baseKey, value)

Unset(holder, shared) == [err |-> "", val |-> holder, shared |-> shared]

Merged(back) == [err |-> "", val |-> back.val, shared |-> back.shared]

nestedPushDone(st, baseKey, nestedKey, made, pushed) ==
    IF pushed.err # "" THEN Failed(st, pushed.err)
    ELSE withHolder(st, baseKey,
                    Merged(StoreBack(made.val, nestedKey, pushed.val, made.shared)))

\* params[baseKey][nestedKey].push(value), made being the outcome of the
\* assignment before it.
nestedPush(st, baseKey, nestedKey, value, made) ==
    IF made.err # "" THEN Failed(st, made.err)
    ELSE nestedPushDone(st, baseKey, nestedKey, made,
                        CallPush(GetProp(made.val, nestedKey, made.shared),
                                 Str(value), made.shared))

\* if (!params[baseKey][nestedKey]) params[baseKey][nestedKey] = []; then push.
nestedArrayIn(st, baseKey, nestedKey, value, holder) ==
    nestedPush(st, baseKey, nestedKey, value,
               IF Truthy(GetProp(holder, nestedKey, st.shared))
               THEN Unset(holder, st.shared)
               ELSE SetProp(holder, nestedKey, Arr(<<>>), st.shared))

nestedArrayAt(st, baseKey, nestedKey, value) ==
    nestedArrayIn(st, baseKey, nestedKey, value, GetProp(st.params, baseKey, st.shared))

\* The likeor[field][] branch.
nestedArrayStep(st, baseKey, nestedKey, value) ==
    nestedArrayAt(ensureBase(st, baseKey, EmptyObj), baseKey, nestedKey, value)

\* The three cases on existingValue.
nestedObjectSet(st, baseKey, nestedKey, value, holder, existingValue) ==
    IF existingValue # Undef
    THEN IF IsArray(existingValue)
         THEN nestedPushDone(st, baseKey, nestedKey, Unset(holder, st.shared),
                             CallPush(existingValue, Str(value), st.shared))
         ELSE withHolder(st, baseKey,
                         SetProp(holder, nestedKey,
                                 Arr(<<existingValue, Str(value)>>), st.shared))
    ELSE withHolder(st, baseKey, SetProp(holder, nestedKey, Str(value), st.shared))

nestedObjectIn(st, baseKey, nestedKey, value, holder) ==
    nestedObjectSet(st, baseKey, nestedKey, value, holder,
                    GetProp(holder, nestedKey, st.shared))

nestedObjectAt(st, baseKey, nestedKey, value) ==
    nestedObjectIn(st, baseKey, nestedKey, value, GetProp(st.params, baseKey, st.shared))

\* The eq[field] branch.
nestedObjectStep(st, baseKey, nestedKey, value) ==
    nestedObjectAt(ensureBase(st, baseKey, EmptyObj), baseKey, nestedKey, value)

\* params[key] = val for a key without brackets.
assign(st, key, val) ==
    [st EXCEPT !.params = SetProp(st.params, key, val, st.shared).val]

\* The keys without brackets.
simpleStep(st, key, value) ==
    IF key \in {"page", "limit"} THEN assign(st, key, ParseInt(value))
    ELSE IF key = "vacuum" THEN assign(st, key, Bool(value = "true"))
    ELSE IF key \in {"sort", "searchFields"} THEN pushToBase(st, key, value)
    ELSE assign(st, key, Str(value))

\* The keys with brackets, by the first pattern that matches.
bracketStep(st, key, value, im, nam, nom) ==
    IF im.ok THEN pushToBase(st, im.baseKey, value)
    ELSE IF nam.ok THEN nestedArrayStep(st, nam.baseKey, nam.nestedKey, value)
    ELSE IF nom.ok THEN nestedObjectStep(st, nom.baseKey, nom.nestedKey, value)
    ELSE IF EndsWith(key, "[]") THEN pushToBase(st, SubSeq(key, 1, Len(key) - 2), value)
    ELSE st

\* One turn of the loop over urlParams.entries().
decodePair(st, key, value) ==
    IF st.err # "" THEN st
    ELSE IF Includes(key, "[") /\ Includes(key, "]")
    THEN bracketStep(st, key, value,
                     indexMatch(key), nestedArrayMatch(key), nestedObjectMatch(key))
    ELSE simpleStep(st, key, value)

RECURSIVE decodePairs(_, _)
decodePairs(st, pairs) ==
    IF Len(pairs) = 0 THEN st
    ELSE decodePairs(decodePair(st, pairs[1][1], pairs[1][2]), Tail(pairs))

\* The end of fromQueryString: validate, return params.
finish(st, err) ==
    IF st.err # "" THEN [err |-> st.err, val |-> Undef, shared |-> st.shared]
    ELSE IF err # "" THEN [err |-> err, val |-> Undef, shared |-> st.shared]
    ELSE [err |-> "", val |-> st.params, shared |-> st.shared]

validated(st) == finish(st, validatePaginationParams(st.params, st.shared))

\* fromQueryString(queryString): [err, val, shared].
fromQueryString(queryString, shared) ==
    validated(decodePairs([params |-> EmptyObj, shared |-> shared, err |-> ""],
                          URLSearchParams(queryString)))

(***************************************************************************)
(* builder.ts: PaginateBuilder.  A builder is [params, options, baseUrl].   *)
(***************************************************************************)
PaginateBuilder(options) ==
    [params |-> EmptyObj, options |-> mergeOptions(options), baseUrl |-> ""]

\* this.params[key] = val
setParam(b, key, val, shared) ==
    [b EXCEPT !.params = SetProp(b.params, key, val, shared).val]

PaginateBuilder_setBaseUrl(b, url) == [b EXCEPT !.baseUrl = url]

PaginateBuilder_page(b, n, shared) == setParam(b, "page", n, shared)

PaginateBuilder_limit(b, n, shared) == setParam(b, "limit", n, shared)

\* if (fields.length > 0) this.params.searchFields = fields
setFields(b, fields, shared) ==
    IF Len(fields) > 0 THEN setParam(b, "searchFields", Arr(fields), shared) ELSE b

PaginateBuilder_search(b, term, fields, shared) ==
    setFields(setParam(b, "search", term, shared), fields, shared)

PaginateBuilder_buildQueryString(b, shared) ==
    afterValidation(validatePaginationParams(b.params, shared),
                    Str(buildQueryString(b.params, b.options)))

\* url, or url and queryString with '?' between, or '&' when url has a '?'.
withQuery(url, queryString) ==
    IF queryString = "" THEN url
    ELSE url \o (IF Includes(url, "?") THEN "&" ELSE "?") \o queryString

urlOf(url, built) ==
    IF built.err # "" THEN built ELSE Returns(Str(withQuery(url, built.val.v)))

\* buildUrl(baseUrl?): baseUrl is Undef when the argument is left out.
PaginateBuilder_buildUrl(b, baseUrl, shared) ==
    urlOf(IF Truthy(baseUrl) THEN baseUrl.v ELSE b.baseUrl,
          PaginateBuilder_buildQueryString(b, shared))

\* merge(params)
PaginateBuilder_merge(b, params, shared) ==
    [b EXCEPT !.params = mergeParams(<<b.params, params>>, shared)]

\* getParams(): { ...this.params }
PaginateBuilder_getParams(b) == Spread(EmptyObj, b.params)

\* { queryString, params, url }, unless one of the two calls threw.
resultOf(queryString, params, url) ==
    IF queryString.err # "" THEN queryString
    ELSE IF url.err # "" THEN url
    ELSE Returns(Obj(<< <<"queryString", queryString.val>>, <<"params", params>>,
                        <<"url", url.val>> >>))

\* build(baseUrl?)
PaginateBuilder_build(b, baseUrl, shared) ==
    resultOf(PaginateBuilder_buildQueryString(b, shared), PaginateBuilder_getParams(b),
             PaginateBuilder_buildUrl(b, baseUrl, shared))

\* buildAxiosConfig(config = {})
PaginateBuilder_buildAxiosConfig(b, config, shared) ==
    afterValidation(validatePaginationParams(b.params, shared),
                    axiosConfig(b.params, IF config = Undef THEN EmptyObj ELSE config, shared))

\* buildFetchConfig(baseUrl?, config = {})
PaginateBuilder_buildFetchConfig(b, baseUrl, config, shared) ==
    fetchConfig(PaginateBuilder_buildUrl(b, baseUrl, shared),
                IF config = Undef THEN EmptyObj ELSE config)

\* A buildUrl that keeps the base URL it was given for the calls to come.
storesBaseUrl(b, op, a) ==
    IF op = "buildUrl" /\ Truthy(a[1]) THEN [b EXCEPT !.baseUrl = a[1].v] ELSE b

\* The builder after getParams, buildQueryString, buildUrl, build,
\* buildAxiosConfig or buildFetchConfig was called with the arguments a: the
\* methods read this.params, this.options and this.baseUrl into locals and
\* fresh objects and assign to none of them.
PaginateBuilder_afterOutput(b, op, a) == b

\* The params object after toQueryString, toUrl, toAxiosConfig or
\* toFetchConfig was given it: it is read through validatePaginationParams,
\* Object.entries and spread, and nothing is assigned to it.
paramsAfter(params, op) == params

(***************************************************************************)
(* builder.ts: the filter methods.  The object a builder keeps in          *)
(* params.like, params.eq, ... is changed in place and can be held by two  *)
(* builders at once, so it lives in a heap (a sequence of objects) and     *)
(* params holds a reference to it: [k |-> "ref", r |-> its place].  A call *)
(* gives [b, heap, err]: the builder and the heap afterwards, and the      *)
(* message of the error thrown ("" when the call returns this).            *)
(***************************************************************************)
Ref(i) == [k |-> "ref", r |-> i]

UnsupportedOperator == "Unsupported filter operator: "

staged(b, h) == [b |-> b, heap |-> h, err |-> ""]

\* if (!this.params[key]) this.params[key] = {}
ensureMap(b, h, key) ==
    IF Truthy(GetOwn(b.params, key)) THEN staged(b, h)
    ELSE staged([b EXCEPT !.params = ObjSet(b.params, key, Ref(Len(h) + 1))],
                Append(h, EmptyObj))

\* this.params[key], the object itself.
mapAt(w, key) == w.heap[GetOwn(w.b.params, key).r]

\* this.params[key][field] = value
setField(w, key, field, value, shared) ==
    [w EXCEPT !.heap[GetOwn(w.b.params, key).r] = SetProp(@, field, value, shared).val]

\* like, equals, greaterThanOrEqual, greaterThan, lessThanOrEqual, lessThan
\* and the key each of them writes.
SingleValueMethods ==
    [like |-> "like", equals |-> "eq", greaterThanOrEqual |-> "gte",
     greaterThan |-> "gt", lessThanOrEqual |-> "lte", lessThan |-> "lt"]

\* likeOr, likeAnd, equalsOr, equalsAnd, whereIn, whereNotIn and their keys.
MultiValueMethods ==
    [likeOr |-> "likeor", likeAnd |-> "likeand", equalsOr |-> "eqor",
     equalsAnd |-> "eqand", whereIn |-> "in", whereNotIn |-> "notin"]

\* searchFields, sort, isNull, isNotNull and their keys.
ListMethods ==
    [searchFields |-> "searchFields", sort |-> "sort", isNull |-> "isnull",
     isNotNull |-> "isnotnull"]

\* like(field, value) and the five methods of the same body.
setSingle(b, h, key, field, value, shared) ==
    setField(ensureMap(b, h, key), key, field, value, shared)

\* [...(existing || []), ...values]: [err, val].  Spreading a value that is
\* not iterable throws.
spreadOnto(existing, values) ==
    IF ~Truthy(existing) THEN [err |-> "", val |-> Arr(values)]
    ELSE IF IsArray(existing) THEN [err |-> "", val |-> Arr(existing.v \o values)]
    ELSE IF existing.k = "str"
    THEN [err |-> "", val |-> Arr([i \in 1..Len(existing.v) |-> Str(At(existing.v, i))] \o values)]
    ELSE [err |-> TypeError, val |-> Undef]

appendField(w, key, field, sp, shared) ==
    IF sp.err # "" THEN [w EXCEPT !.err = sp.err]
    ELSE setField(w, key, field, sp.val, shared)

appendIn(w, key, field, values, shared) ==
    appendField(w, key, field, spreadOnto(GetProp(mapAt(w, key), field, shared), values), shared)

\* likeOr(field, ...values) and the five methods of the same body.
setMulti(b, h, key, field, values, shared) ==
    appendIn(ensureMap(b, h, key), key, field, values, shared)

\* between(field, min, max)
PaginateBuilder_between(b, h, field, min, max, shared) ==
    setSingle(b, h, "between", field, Arr(<<min, max>>), shared)

appendList(b, h, key, sp, shared) ==
    IF sp.err # "" THEN [staged(b, h) EXCEPT !.err = sp.err]
    ELSE staged(setParam(b, key, sp.val, shared), h)

\* sort(...sorts), searchFields(...fields), isNull(...fields),
\* isNotNull(...fields)
setList(b, h, key, items, shared) ==
    appendList(b, h, key, spreadOnto(GetProp(b.params, key, shared), items), shared)

PaginateBuilder_sortAsc(b, h, field, shared) == setList(b, h, "sort", <<Str(field)>>, shared)

PaginateBuilder_sortDesc(b, h, field, shared) ==
    setList(b, h, "sort", <<Str("-" \o field)>>, shared)

\* Array.isArray(value) ? value : [value]
asList(value) == IF IsArray(value) THEN value.v ELSE <<value>>

\* filter(field, operator, value)
PaginateBuilder_filter(b, h, field, operator, value, shared) ==
    CASE operator \in {"like", "gte", "gt", "lte", "lt"} ->
           setSingle(b, h, operator, field, value, shared)
      [] operator = "eq" -> setSingle(b, h, "eq", field, value, shared)
      [] operator \in {"in", "notin"} -> setMulti(b, h, operator, field, asList(value), shared)
      [] operator \in {"isnull", "isnotnull"} -> setList(b, h, operator, <<Str(field)>>, shared)
      [] OTHER -> [staged(b, h) EXCEPT !.err = UnsupportedOperator \o operator]

\* A reset that leaves params as it is.
keepsParams(b) == b

\* reset()
PaginateBuilder_reset(b) == [b EXCEPT !.params = EmptyObj]

\* clone(): a builder of the same options whose params is a copy of this
\* one's own properties, the references among them copied as they are.
PaginateBuilder_clone(b) ==
    [params |-> Spread(EmptyObj, b.params), options |-> mergeOptions(b.options),
     baseUrl |-> b.baseUrl]

\* The value a caller sees through a reference.
Seen(val, h) == IF val.k = "ref" THEN h[val.r] ELSE val

\* params as the caller of getParams() reads it.
Resolved(params, h) ==
    Obj([i \in 1..Len(params.e) |-> <<params.e[i][1], Seen(params.e[i][2], h)>>])

\* The builder with its params read through the heap.
Held(b, h) == [b EXCEPT !.params = Resolved(b.params, h)]

(***************************************************************************)
(* builder.ts: merge, with the mappings of the object merged kept in the   *)
(* heap.  The fold's state is [params, heap]: the result of mergeParams    *)
(* so far and the heap.                                                    *)
(***************************************************************************)
\* The three branches of mergeParams for a value that is not skipped,
\* existing being result[key]: a mapping over an object gives a new object
\* { ...result[key], ...value }; any other mapping is stored as it is, the
\* object itself; a value that is no mapping goes by mergedValue.
mergeStored(acc, key, value, existing, shared) ==
    IF value.k = "ref" /\ TypeOf(existing) = "object"
    THEN [params |-> SetProp(acc.params, key, Ref(Len(acc.heap) + 1), shared).val,
          heap |-> Append(acc.heap, Spread(Spread(EmptyObj, existing), acc.heap[value.r]))]
    ELSE IF value.k = "ref"
    THEN [acc EXCEPT !.params = SetProp(acc.params, key, value, shared).val]
    ELSE [acc EXCEPT !.params = SetProp(acc.params, key, mergedValue(existing, value), shared).val]

\* One turn of the loop over Object.entries(obj).
mergeHeld(acc, key, value, shared) ==
    IF value = Undef \/ value = Null THEN acc
    ELSE mergeStored(acc, key, value, Seen(GetProp(acc.params, key, shared), acc.heap), shared)

RECURSIVE mergeAllHeld(_, _, _)
mergeAllHeld(acc, entries, shared) ==
    IF Len(entries) = 0 THEN acc
    ELSE mergeAllHeld(mergeHeld(acc, entries[1][1], entries[1][2], shared), Tail(entries), shared)

\* merge(params): this.params = mergeParams(this.params, params)
PaginateBuilder_mergeHeld(b, h, params, shared) ==
    mergeAllHeld(mergeAllHeld([params |-> EmptyObj, heap |-> h], ObjectEntries(b.params), shared),
                 ObjectEntries(params), shared)

(***************************************************************************)
(* The state                                                               *)
(***************************************************************************)
VARIABLES
    literal,    \* the caller's model as written: <<key, value>> in insertion order
    options,    \* the options argument of the call
    args,       \* the other arguments of the call under study
    tokens,     \* the token list the encoder built (queryParams)
    query,      \* the outcome of toQueryString, or the query string to decode
    decoded,    \* the outcome of fromQueryString: [err, val, shared]
    outcome,    \* the outcome of any other call
    shared,     \* the properties written on built-in objects
    builder,    \* the PaginateBuilder under study
    calls,      \* the calls that changed the builder, in order
    cloned,     \* the builder clone() returned (undefined before clone)
    heap,       \* the operator maps the builders hold by reference
    pc          \* the last call made ("init" before any)

vars == <<literal, options, args, tokens, query, decoded, outcome, shared,
          builder, calls, cloned, heap, pc>>

None == [err |-> "", val |-> Undef]

Undecoded == [err |-> "", val |-> Undef, shared |-> EmptyObj]

\* A nested object literal, its entries in the order written.
Lit(pairs) == [k |-> "lit", l |-> pairs]

BuildValue(val) == IF val.k = "lit" THEN Obj(FromEntries(val.l)) ELSE val

\* The object the caller's literal denotes.
Model(lit) == Obj(FromEntries([i \in 1..Len(lit) |-> <<lit[i][1], BuildValue(lit[i][2])>>]))

(***************************************************************************)
(* Bounds and input sets                                                   *)
(***************************************************************************)
\* Top-level entries in a model.
MaxLit == 2

S(str) == Str(str)

\* The entries a model is written from: scalars, flat arrays, operator maps,
\* skippable values, and keys that are array indices.
Entries ==
    { <<"page", Num(2)>>,
      <<"limit", Num(10)>>,
      <<"search", S("a b")>>,
      <<"search", S("")>>,
      <<"vacuum", Bool(FALSE)>>,
      <<"sort", Arr(<<S("a"), S("-b")>>)>>,
      <<"sort", Arr(<<>>)>>,
      <<"searchFields", Arr(<<S("a"), S("b c")>>)>>,
      <<"isnull", Arr(<<S("a")>>)>>,
      <<"n", Null>>,
      <<"u", Undef>>,
      <<"z", Num(0)>>,
      <<"7", S("x")>>,
      <<"10", Arr(<<S("a")>>)>>,
      <<"eq", Lit(<< <<"f", S("x")>>, <<"searchFields", Bool(TRUE)>>,
                     <<"e", S("")>>, <<"n", Null>>, <<"a", Arr(<<>>)>> >>)>>,
      <<"eq", Lit(<< <<"g", Num(3)>>, <<"10", S("x")>>, <<"2", Bool(FALSE)>> >>)>>,
      <<"likeor", Lit(<< <<"g", Arr(<<S("a"), S("b")>>)>>, <<"2", Arr(<<S("c")>>)>> >>)>> }

DistinctKeys(lit) == \A i, j \in 1..Len(lit) : i # j => lit[i][1] # lit[j][1]

RECURSIVE SeqsUpTo(_, _)
SeqsUpTo(set, n) ==
    IF n = 0 THEN {<<>>}
    ELSE LET shorter == SeqsUpTo(set, n - 1)
         IN  shorter \cup {Append(q, e) : q \in {r \in shorter : Len(r) = n - 1}, e \in set}

Literals == {lit \in SeqsUpTo(Entries, MaxLit) : DistinctKeys(lit)}

ArrayFormats == {"repeat", "brackets", "indices", "comma", "separator"}

\* The options arguments: each array format with values encoded and raw, the
\* skip switches off one at a time and together, a custom separator, and a
\* partial record that leaves the other fields to the defaults.
OptionChoices ==
    {[DEFAULT_OPTIONS EXCEPT !.arrayFormat = f, !.encodeValues = e] :
        f \in ArrayFormats, e \in BOOLEAN}
    \cup {[DEFAULT_OPTIONS EXCEPT !.skipNulls = n, !.skipEmptyString = m] :
            n \in BOOLEAN, m \in BOOLEAN}
    \cup {[DEFAULT_OPTIONS EXCEPT !.arrayFormat = "separator", !.arraySeparator = "|",
                                  !.skipNulls = FALSE]}
    \cup {[arrayFormat |-> "comma"]}

(***************************************************************************)
(* Spec: a model is encoded, and the query string decoded again            *)
(***************************************************************************)
Init ==
    /\ literal \in Literals
    /\ options \in OptionChoices
    /\ args = <<>>
    /\ tokens = <<>>
    /\ query = None
    /\ decoded = Undecoded
    /\ outcome = None
    /\ shared = EmptyObj
    /\ builder = PaginateBuilder(DEFAULT_OPTIONS)
    /\ calls = <<>>
    /\ cloned = Undef
    /\ heap = <<>>
    /\ pc = "init"

\* toQueryString(model, options); tokens is buildQueryString's queryParams.
ToQueryString ==
    /\ pc = "init"
    /\ query' = toQueryString(Model(literal), options, shared)
    /\ tokens' = IF query'.err = ""
                 THEN objectToQueryParams(Model(literal), mergeOptions(options))
                 ELSE <<>>
    /\ pc' = "toQueryString"
    /\ UNCHANGED <<literal, options, args, decoded, outcome, shared, builder, calls, cloned, heap>>

\* fromQueryString(the string toQueryString returned).
FromQueryString ==
    /\ pc = "toQueryString"
    /\ query.err = ""
    /\ decoded' = fromQueryString(query.val.v, shared)
    /\ shared' = decoded'.shared
    /\ pc' = "fromQueryString"
    /\ UNCHANGED <<literal, options, args, tokens, query, outcome, builder, calls, cloned, heap>>

Next == ToQueryString \/ FromQueryString

Spec == Init /\ [][Next]_vars

(***************************************************************************)
(* SpecEmpty: toQueryString on models that hold nothing but empty arrays,  *)
(* at the top level and inside operator maps                               *)
(***************************************************************************)
EmptyEntries ==
    { <<"sort", Arr(<<>>)>>,
      <<"searchFields", Arr(<<>>)>>,
      <<"x", Arr(<<>>)>>,
      <<"likeor", Lit(<< <<"status", Arr(<<>>)>> >>)>>,
      <<"in", Lit(<< <<"f", Arr(<<>>)>>, <<"g", Arr(<<>>)>> >>)>>,
      <<"eq", Lit(<<>>)>> }

EmptyLiterals == {lit \in SeqsUpTo(EmptyEntries, MaxLit) : DistinctKeys(lit)}

InitEmpty ==
    /\ literal \in EmptyLiterals
    /\ options \in OptionChoices
    /\ args = <<>>
    /\ tokens = <<>>
    /\ query = None
    /\ decoded = Undecoded
    /\ outcome = None
    /\ shared = EmptyObj
    /\ builder = PaginateBuilder(DEFAULT_OPTIONS)
    /\ calls = <<>>
    /\ cloned = Undef
    /\ heap = <<>>
    /\ pc = "init"

NextEmpty == ToQueryString

SpecEmpty == InitEmpty /\ [][NextEmpty]_vars

(***************************************************************************)
(* SpecValidate: validatePaginationParams on a page and a limit of any     *)
(* type                                                                    *)
(***************************************************************************)
\* The values a caller can pass for page and limit; Undef is a key left out.
PageLimitValues ==
    {Undef, Null, NaN, Num(1), Num(5), Num(0), Num(-1), Tenths(15),
     Str("5"), Str("1.5"), Str("abc"), Str(""), Bool(TRUE), Bool(FALSE),
     Arr(<<Num(5)>>), Arr(<<>>), EmptyObj}

\* { page: args[1], limit: args[2] }
pageLimitParams(values) == Obj(<< <<"page", values[1]>>, <<"limit", values[2]>> >>)

InitValidate ==
    /\ literal = <<>>
    /\ options = DEFAULT_OPTIONS
    /\ args \in PageLimitValues \X PageLimitValues
    /\ tokens = <<>>
    /\ query = None
    /\ decoded = Undecoded
    /\ outcome = None
    /\ shared = EmptyObj
    /\ builder = PaginateBuilder(DEFAULT_OPTIONS)
    /\ calls = <<>>
    /\ cloned = Undef
    /\ heap = <<>>
    /\ pc = "init"

ValidatePaginationParams ==
    /\ pc = "init"
    /\ outcome' = afterValidation(validatePaginationParams(pageLimitParams(args), shared),
                                  Undef)
    /\ pc' = "validatePaginationParams"
    /\ UNCHANGED <<literal, options, args, tokens, query, decoded, shared, builder, calls, cloned, heap>>

NextValidate == ValidatePaginationParams

SpecValidate == InitValidate /\ [][NextValidate]_vars

(***************************************************************************)
(* SpecFormat: formatArrayValue on a key, a non-empty array and options    *)
(***************************************************************************)
\* Elements in an array.
MaxArr == 3

FormatValues == {Str("a"), Str("b c"), Str("x,y|z"), Num(1)}

FormatKeys == {"sort", "eq[f]"}

FormatOptions ==
    {[DEFAULT_OPTIONS EXCEPT !.arrayFormat = f, !.encodeValues = e, !.arraySeparator = p] :
        f \in ArrayFormats, e \in BOOLEAN, p \in {",", "|"}}

InitFormat ==
    /\ literal = <<>>
    /\ options \in FormatOptions
    /\ args \in FormatKeys \X (SeqsUpTo(FormatValues, MaxArr) \ {<<>>})
    /\ tokens = <<>>
    /\ query = None
    /\ decoded = Undecoded
    /\ outcome = None
    /\ shared = EmptyObj
    /\ builder = PaginateBuilder(DEFAULT_OPTIONS)
    /\ calls = <<>>
    /\ cloned = Undef
    /\ heap = <<>>
    /\ pc = "init"

FormatArrayValue ==
    /\ pc = "init"
    /\ tokens' = formatArrayValue(args[1], args[2], options)
    /\ pc' = "formatArrayValue"
    /\ UNCHANGED <<literal, options, args, query, decoded, outcome, shared, builder, calls, cloned, heap>>

NextFormat == FormatArrayValue

SpecFormat == InitFormat /\ [][NextFormat]_vars

(***************************************************************************)
(* SpecDecode: fromQueryString on a query string written by hand           *)
(***************************************************************************)
\* Pairs in a query string.
MaxPairs == 3

\* The key=value pairs a query string is written from.
RawPairs ==
    { <<"sort[0]", "a">>, <<"sort[1]", "b">>, <<"sort[1]", "c">>, <<"sort[]", "d">>,
      <<"sort", "e">>, <<"sort", "-f">>, <<"searchFields", "n">>,
      <<"page", "2">>, <<"page", "abc">>, <<"page", "2x">>, <<"limit", "0">>,
      <<"limit", "">>, <<"search", "a+b">>, <<"search", "z">>,
      <<"vacuum", "true">>, <<"vacuum", "1">>, <<"eq[f]", "x">>, <<"eq[f]", "y">>,
      <<"eq[constructor]", "x">>, <<"likeor[f][]", "a">>, <<"likeor[f][0]", "a">>,
      <<"x[f]", "1">>, <<"__proto__[f]", "v">>, <<"__proto__", "x">> }

\* The query string of a sequence of pairs.
QueryOf(pairs) == Join([i \in 1..Len(pairs) |-> pairs[i][1] \o "=" \o pairs[i][2]], "&")

InitDecode ==
    /\ literal = <<>>
    /\ options = DEFAULT_OPTIONS
    /\ args \in SeqsUpTo(RawPairs, MaxPairs)
    /\ tokens = <<>>
    /\ query = Returns(Str(QueryOf(args)))
    /\ decoded = Undecoded
    /\ outcome = None
    /\ shared = EmptyObj
    /\ builder = PaginateBuilder(DEFAULT_OPTIONS)
    /\ calls = <<>>
    /\ cloned = Undef
    /\ heap = <<>>
    /\ pc = "init"

\* fromQueryString(query)
DecodeQuery ==
    /\ pc = "init"
    /\ decoded' = fromQueryString(query.val.v, shared)
    /\ shared' = decoded'.shared
    /\ pc' = "fromQueryString"
    /\ UNCHANGED <<literal, options, args, tokens, query, outcome, builder, calls, cloned, heap>>

NextDecode == DecodeQuery

SpecDecode == InitDecode /\ [][NextDecode]_vars

(***************************************************************************)
(* SpecShapes: fromQueryString on pairs that name one base key in several  *)
(* shapes, page and limit through bracketed keys, and keys with two pairs  *)
(* of brackets                                                             *)
(***************************************************************************)
ShapePairs ==
    { <<"page", "2">>, <<"page[]", "5">>, <<"page[x]", "1">>, <<"limit[0]", "3">>,
      <<"limit[]", "0">>, <<"k", "x">>, <<"k[]", "y">>, <<"k[0]", "w">>, <<"k[f]", "z">>,
      <<"k[f][]", "u">>, <<"sort", "s">>, <<"sort[f]", "t">>, <<"a[b][c]", "v">>,
      <<"a[b][0]", "v">> }

InitShapes ==
    /\ literal = <<>>
    /\ options = DEFAULT_OPTIONS
    /\ args \in SeqsUpTo(ShapePairs, MaxPairs)
    /\ tokens = <<>>
    /\ query = Returns(Str(QueryOf(args)))
    /\ decoded = Undecoded
    /\ outcome = None
    /\ shared = EmptyObj
    /\ builder = PaginateBuilder(DEFAULT_OPTIONS)
    /\ calls = <<>>
    /\ cloned = Undef
    /\ heap = <<>>
    /\ pc = "init"

SpecShapes == InitShapes /\ [][NextDecode]_vars

(***************************************************************************)
(* SpecBuilder: calls on one PaginateBuilder, and what buildUrl returns    *)
(***************************************************************************)
\* Calls that change the builder.
MaxCalls == 4

BaseUrls == {"/api/users", "/api?x=1"}

PageValues == {Num(2), Num(0)}

LimitValues == {Num(10), Num(0)}

SearchTerms == {Str("john")}

SearchFieldLists == {<<>>, <<Str("name")>>}

BuildUrlArgs == {Undef, Str("/other")}

BuilderOptions == {DEFAULT_OPTIONS, [arrayFormat |-> "brackets"]}

\* The config argument of the axios and fetch calls; Undef is one left out.
Configs ==
    {Undef,
     Obj(<< <<"method", Str("POST")>>,
            <<"params", Obj(<< <<"version", Str("v1")>>, <<"page", Num(7)>> >>)>> >>)}

Call(op, a) == [op |-> op, args |-> a]

InitBuilder ==
    /\ literal = <<>>
    /\ options \in BuilderOptions
    /\ args = <<>>
    /\ tokens = <<>>
    /\ query = None
    /\ decoded = Undecoded
    /\ outcome = None
    /\ shared = EmptyObj
    /\ builder = PaginateBuilder(options)
    /\ calls = <<>>
    /\ cloned = Undef
    /\ heap = <<>>
    /\ pc = "init"

\* A call that changes the builder and returns it.
Chained(op, a, b) ==
    /\ Len(calls) < MaxCalls
    /\ args' = a
    /\ builder' = b
    /\ calls' = Append(calls, Call(op, a))
    /\ outcome' = None
    /\ pc' = op
    /\ UNCHANGED <<literal, options, tokens, query, decoded, shared, cloned, heap>>

SetBaseUrl ==
    \E url \in BaseUrls :
        Chained("setBaseUrl", <<url>>, PaginateBuilder_setBaseUrl(builder, url))

Page ==
    \E n \in PageValues :
        Chained("page", <<n>>, PaginateBuilder_page(builder, n, shared))

Limit ==
    \E n \in LimitValues :
        Chained("limit", <<n>>, PaginateBuilder_limit(builder, n, shared))

Search ==
    \E term \in SearchTerms, fields \in SearchFieldLists :
        Chained("search", <<term, fields>>,
                PaginateBuilder_search(builder, term, fields, shared))

\* A call that returns a result and leaves the builder as it is.
Output(op, a, result) ==
    /\ args' = a
    /\ outcome' = result
    /\ pc' = op
    /\ UNCHANGED <<literal, options, tokens, query, decoded, shared, builder, calls, cloned, heap>>

BuildUrl ==
    \E baseUrl \in BuildUrlArgs :
        Output("buildUrl", <<baseUrl>>, PaginateBuilder_buildUrl(builder, baseUrl, shared))

BuildQueryString ==
    Output("buildQueryString", <<>>, PaginateBuilder_buildQueryString(builder, shared))

Build ==
    \E baseUrl \in BuildUrlArgs :
        Output("build", <<baseUrl>>, PaginateBuilder_build(builder, baseUrl, shared))

BuildAxiosConfig ==
    \E config \in Configs :
        Output("buildAxiosConfig", <<config>>,
               PaginateBuilder_buildAxiosConfig(builder, config, shared))

BuildFetchConfig ==
    \E baseUrl \in BuildUrlArgs, config \in Configs :
        Output("buildFetchConfig", <<baseUrl, config>>,
               PaginateBuilder_buildFetchConfig(builder, baseUrl, config, shared))

\* The quick functions of index.ts, called on the builder's parameters with
\* the options the builder was made with.
QuickQueryString ==
    Output("toQueryString", <<>>,
           toQueryString(PaginateBuilder_getParams(builder), options, shared))

ToUrl ==
    \E baseUrl \in BaseUrls :
        Output("toUrl", <<baseUrl>>,
               toUrl(baseUrl, PaginateBuilder_getParams(builder), options, shared))

ToAxiosConfig ==
    \E config \in Configs :
        Output("toAxiosConfig", <<config>>,
               toAxiosConfig(PaginateBuilder_getParams(builder), config, shared))

ToFetchConfig ==
    \E baseUrl \in BaseUrls, config \in Configs :
        Output("toFetchConfig", <<baseUrl, config>>,
               toFetchConfig(baseUrl, PaginateBuilder_getParams(builder), config, options,
                             shared))

NextBuilder == SetBaseUrl \/ Page \/ Limit \/ Search \/ BuildUrl

SpecBuilder == InitBuilder /\ [][NextBuilder]_vars

(***************************************************************************)
(* SpecIsolation: fromQueryString on a query string written by hand, then  *)
(* an independent call of fromQueryString or toQueryString                 *)
(***************************************************************************)
MaxFirstPairs == 2

\* The pairs of the query string decoded first.
FirstPairs ==
    { <<"__proto__[f]", "v">>, <<"__proto__[limit]", "0">>, <<"constructor[f]", "v">>,
      <<"toString[f]", "v">>, <<"x[f]", "1">>, <<"eq[f]", "x">>, <<"page", "2">>,
      <<"sort", "a">> }

\* The query strings decoded afterwards.
LaterQueries == {"", "x[f]=1", "eq[f]=y", "constructor[f]=w", "page=3", "sort=b"}

\* The models encoded afterwards.
LaterModels ==
    {EmptyObj, Obj(<< <<"page", Num(1)>> >>), Obj(<< <<"eq", Obj(<< <<"f", Str("x")>> >>)>> >>)}

InitIsolation ==
    /\ literal = <<>>
    /\ options = DEFAULT_OPTIONS
    /\ args \in SeqsUpTo(FirstPairs, MaxFirstPairs)
    /\ tokens = <<>>
    /\ query = Returns(Str(QueryOf(args)))
    /\ decoded = Undecoded
    /\ outcome = None
    /\ shared = EmptyObj
    /\ builder = PaginateBuilder(DEFAULT_OPTIONS)
    /\ calls = <<>>
    /\ cloned = Undef
    /\ heap = <<>>
    /\ pc = "init"

\* What the caller of fromQueryString sees.
Outcome(result) == [err |-> result.err, val |-> result.val]

\* fromQueryString(q) after the first call
LaterDecode ==
    /\ pc = "fromQueryString"
    /\ \E q \in LaterQueries :
           /\ calls' = <<Call("fromQueryString", <<Str(q)>>)>>
           /\ outcome' = Outcome(fromQueryString(q, shared))
           /\ shared' = fromQueryString(q, shared).shared
    /\ pc' = "later"
    /\ UNCHANGED <<literal, options, args, tokens, query, decoded, builder, cloned, heap>>

\* toQueryString(m) after the first call
LaterEncode ==
    /\ pc = "fromQueryString"
    /\ \E m \in LaterModels :
           /\ calls' = <<Call("toQueryString", <<m>>)>>
           /\ outcome' = toQueryString(m, DEFAULT_OPTIONS, shared)
    /\ pc' = "later"
    /\ UNCHANGED <<literal, options, args, tokens, query, decoded, shared, builder, cloned, heap>>

NextIsolation == DecodeQuery \/ LaterDecode \/ LaterEncode

SpecIsolation == InitIsolation /\ [][NextIsolation]_vars

(***************************************************************************)
(* SpecOutput: every call that produces a query string, a URL or a config, *)
(* on a builder a few calls have staged                                    *)
(***************************************************************************)
\* Calls staged before the output is asked for.
MaxStaged == 2

Stage ==
    /\ Len(calls) < MaxStaged
    /\ (SetBaseUrl \/ Page \/ Limit \/ Search)

NextOutput ==
    \/ Stage
    \/ BuildUrl \/ BuildQueryString \/ Build \/ BuildAxiosConfig \/ BuildFetchConfig
    \/ QuickQueryString \/ ToUrl \/ ToAxiosConfig \/ ToFetchConfig

SpecOutput == InitBuilder /\ [][NextOutput]_vars

(***************************************************************************)
(* SpecReadOnly: the calls of SpecOutput and getParams, any number of      *)
(* times in any order, with the builder and the model as each call leaves  *)
(* them.  The quick functions are given the object the builder holds.      *)
(***************************************************************************)
\* A builder method that returns a result.
Reading(op, a, result) ==
    /\ args' = a
    /\ outcome' = result
    /\ builder' = PaginateBuilder_afterOutput(builder, op, a)
    /\ pc' = op
    /\ UNCHANGED <<literal, options, tokens, query, decoded, shared, calls, cloned, heap>>

\* A quick function of index.ts that is given builder.params.
Given(op, a, result) ==
    /\ args' = a
    /\ outcome' = result
    /\ builder' = [builder EXCEPT !.params = paramsAfter(builder.params, op)]
    /\ pc' = op
    /\ UNCHANGED <<literal, options, tokens, query, decoded, shared, calls, cloned, heap>>

ReadGetParams == Reading("getParams", <<>>, Returns(PaginateBuilder_getParams(builder)))

ReadBuildQueryString ==
    Reading("buildQueryString", <<>>, PaginateBuilder_buildQueryString(builder, shared))

ReadBuildUrl ==
    \E baseUrl \in BuildUrlArgs :
        Reading("buildUrl", <<baseUrl>>, PaginateBuilder_buildUrl(builder, baseUrl, shared))

ReadBuild ==
    \E baseUrl \in BuildUrlArgs :
        Reading("build", <<baseUrl>>, PaginateBuilder_build(builder, baseUrl, shared))

ReadBuildAxiosConfig ==
    \E config \in Configs :
        Reading("buildAxiosConfig", <<config>>,
                PaginateBuilder_buildAxiosConfig(builder, config, shared))

ReadBuildFetchConfig ==
    \E baseUrl \in BuildUrlArgs, config \in Configs :
        Reading("buildFetchConfig", <<baseUrl, config>>,
                PaginateBuilder_buildFetchConfig(builder, baseUrl, config, shared))

GivenToQueryString ==
    Given("toQueryString", <<>>, toQueryString(builder.params, options, shared))

GivenToUrl ==
    \E baseUrl \in BaseUrls :
        Given("toUrl", <<baseUrl>>, toUrl(baseUrl, builder.params, options, shared))

GivenToAxiosConfig ==
    \E config \in Configs :
        Given("toAxiosConfig", <<config>>, toAxiosConfig(builder.params, config, shared))

GivenToFetchConfig ==
    \E baseUrl \in BaseUrls, config \in Configs :
        Given("toFetchConfig", <<baseUrl, config>>,
              toFetchConfig(baseUrl, builder.params, config, options, shared))

NextReadOnly ==
    \/ Stage
    \/ ReadGetParams \/ ReadBuildQueryString \/ ReadBuildUrl \/ ReadBuild
    \/ ReadBuildAxiosConfig \/ ReadBuildFetchConfig
    \/ GivenToQueryString \/ GivenToUrl \/ GivenToAxiosConfig \/ GivenToFetchConfig

SpecReadOnly == InitBuilder /\ [][NextReadOnly]_vars

(***************************************************************************)
(* SpecFilters: the filter methods, filter() and reset() on one builder    *)
(***************************************************************************)
MaxFilterCalls == 2

FilterFields == {"f", "constructor"}

FilterValues == {Str("x"), Num(1)}

FilterValueLists == {<<Str("a"), Str("b")>>}

BetweenBounds == {<<Num(1), Num(9)>>, <<Str("a"), Str("z")>>}

ListItems == {<<Str("name")>>, <<Str("-age"), Str("id")>>}

\* The FilterOperator type, and a name outside it.
FilterOperator ==
    {"like", "likeor", "likeand", "eq", "eqor", "eqand", "gte", "gt", "lte", "lt",
     "in", "notin", "between", "isnull", "isnotnull"}

FilterOperators == FilterOperator \cup {"regex"}

FilterArguments == FilterValues \cup {Arr(<<Str("a"), Str("b")>>)}

\* A call that changes the builder in place and returns it, or throws.
Called(op, a, w) ==
    /\ Len(calls) < MaxFilterCalls
    /\ args' = a
    /\ builder' = w.b
    /\ heap' = w.heap
    /\ calls' = Append(calls, Call(op, a))
    /\ outcome' = IF w.err = "" THEN None ELSE Throws(w.err)
    /\ pc' = op
    /\ UNCHANGED <<literal, options, tokens, query, decoded, shared, cloned>>

SingleValue ==
    \E method \in DOMAIN SingleValueMethods, field \in FilterFields, value \in FilterValues :
        Called(method, <<field, value>>,
               setSingle(builder, heap, SingleValueMethods[method], field, value, shared))

MultiValue ==
    \E method \in DOMAIN MultiValueMethods, field \in FilterFields, values \in FilterValueLists :
        Called(method, <<field, values>>,
               setMulti(builder, heap, MultiValueMethods[method], field, values, shared))

Between ==
    \E field \in FilterFields, bounds \in BetweenBounds :
        Called("between", <<field, bounds[1], bounds[2]>>,
               PaginateBuilder_between(builder, heap, field, bounds[1], bounds[2], shared))

FlatList ==
    \E method \in DOMAIN ListMethods, items \in ListItems :
        Called(method, <<items>>, setList(builder, heap, ListMethods[method], items, shared))

SortAsc ==
    \E field \in FilterFields :
        Called("sortAsc", <<field>>, PaginateBuilder_sortAsc(builder, heap, field, shared))

SortDesc ==
    \E field \in FilterFields :
        Called("sortDesc", <<field>>, PaginateBuilder_sortDesc(builder, heap, field, shared))

Filter ==
    \E field \in FilterFields, operator \in FilterOperators, value \in FilterArguments :
        Called("filter", <<field, operator, value>>,
               PaginateBuilder_filter(builder, heap, field, operator, value, shared))

Reset == Called("reset", <<>>, staged(PaginateBuilder_reset(builder), heap))

NextFilters ==
    SingleValue \/ MultiValue \/ Between \/ FlatList \/ SortAsc \/ SortDesc \/ Filter \/ Reset

SpecFilters == InitBuilder /\ [][NextFilters]_vars

(***************************************************************************)
(* SpecClone: a builder b, its clone c once clone() was called, and calls  *)
(* on either.  The first argument of a call names the builder it is made   *)
(* on.                                                                     *)
(***************************************************************************)
MaxCloneCalls == 3

CloneMethods == {"like", "equals"}

CloneField == "f"

Targets == IF cloned = Undef THEN {"b"} ELSE {"b", "c"}

BuilderOf(t) == IF t = "b" THEN builder ELSE cloned

\* A call on builder t that changes it in place and returns it, or throws.
CalledOn(t, op, a, w) ==
    /\ Len(calls) < MaxCloneCalls
    /\ args' = <<t>> \o a
    /\ builder' = IF t = "b" THEN w.b ELSE builder
    /\ cloned' = IF t = "c" THEN w.b ELSE cloned
    /\ heap' = w.heap
    /\ calls' = Append(calls, Call(op, <<t>> \o a))
    /\ outcome' = IF w.err = "" THEN None ELSE Throws(w.err)
    /\ pc' = op
    /\ UNCHANGED <<literal, options, tokens, query, decoded, shared>>

\* c = b.clone()
Clone ==
    /\ cloned = Undef
    /\ Len(calls) < MaxCloneCalls
    /\ args' = <<"b">>
    /\ cloned' = PaginateBuilder_clone(builder)
    /\ calls' = Append(calls, Call("clone", <<"b">>))
    /\ outcome' = None
    /\ pc' = "clone"
    /\ UNCHANGED <<literal, options, tokens, query, decoded, shared, builder, heap>>

OnSingleValue ==
    \E t \in Targets, method \in CloneMethods, value \in FilterValues :
        CalledOn(t, method, <<CloneField, value>>,
                 setSingle(BuilderOf(t), heap, SingleValueMethods[method], CloneField, value,
                           shared))

OnWhereIn ==
    \E t \in Targets, values \in FilterValueLists :
        CalledOn(t, "whereIn", <<CloneField, values>>,
                 setMulti(BuilderOf(t), heap, "in", CloneField, values, shared))

OnSort ==
    \E t \in Targets :
        CalledOn(t, "sort", <<<<Str("name")>>>>,
                 setList(BuilderOf(t), heap, "sort", <<Str("name")>>, shared))

OnPage ==
    \E t \in Targets :
        CalledOn(t, "page", <<Num(2)>>,
                 staged(PaginateBuilder_page(BuilderOf(t), Num(2), shared), heap))

OnSetBaseUrl ==
    \E t \in Targets :
        CalledOn(t, "setBaseUrl", <<"/api">>,
                 staged(PaginateBuilder_setBaseUrl(BuilderOf(t), "/api"), heap))

OnReset ==
    \E t \in Targets :
        CalledOn(t, "reset", <<>>, staged(PaginateBuilder_reset(BuilderOf(t)), heap))

\* t.getParams(), read through the heap.
GetParams ==
    \E t \in Targets :
        Output("getParams", <<t>>,
               Returns(Resolved(PaginateBuilder_getParams(BuilderOf(t)), heap)))

\* t.buildQueryString()
OnBuildQueryString ==
    \E t \in Targets :
        Output("buildQueryString", <<t>>,
               PaginateBuilder_buildQueryString(Held(BuilderOf(t), heap), shared))

NextClone ==
    \/ Clone \/ OnSingleValue \/ OnWhereIn \/ OnSort \/ OnPage \/ OnSetBaseUrl \/ OnReset
    \/ GetParams \/ OnBuildQueryString

SpecClone == InitBuilder /\ [][NextClone]_vars

(***************************************************************************)
(* SpecReset: the calls of SpecClone on one builder that is never cloned   *)
(***************************************************************************)
NextReset ==
    \/ OnSingleValue \/ OnWhereIn \/ OnSort \/ OnPage \/ OnSetBaseUrl \/ OnReset
    \/ GetParams \/ OnBuildQueryString

SpecReset == InitBuilder /\ [][NextReset]_vars

(***************************************************************************)
(* SpecSort: parseSortString on a sort string                              *)
(***************************************************************************)
SortPrefixes == {"", "-"}

SortFields == {"", "a", "created_at"}

SortSuffixes ==
    {"", ":", ":asc", ":desc", ":DESC", ":Desc", ":invalid", ":-desc", ":desc:x", ":x:desc",
     ":desc:", "::desc"}

SortStrings == {p \o f \o s : p \in SortPrefixes, f \in SortFields, s \in SortSuffixes}

InitSort ==
    /\ literal = <<>>
    /\ options = DEFAULT_OPTIONS
    /\ args \in {<<Str(s)>> : s \in SortStrings}
    /\ tokens = <<>>
    /\ query = None
    /\ decoded = Undecoded
    /\ outcome = None
    /\ shared = EmptyObj
    /\ builder = PaginateBuilder(DEFAULT_OPTIONS)
    /\ calls = <<>>
    /\ cloned = Undef
    /\ heap = <<>>
    /\ pc = "init"

\* parseSortString(args[1])
ParseSortString ==
    /\ pc = "init"
    /\ outcome' = Returns(parseSortString(args[1].v))
    /\ pc' = "parseSortString"
    /\ UNCHANGED <<literal, options, args, tokens, query, decoded, shared, builder, calls, cloned, heap>>

NextSort == ParseSortString

SpecSort == InitSort /\ [][NextSort]_vars

(***************************************************************************)
(* SpecMerge: mergeParams on three objects, and builder.merge of each in   *)
(* turn                                                                    *)
(***************************************************************************)
\* What an object to merge has at its key k: nothing (Hole stands for a
\* key left out), null, undefined, a number, a string, an array or a
\* mapping.
MergeValues ==
    {Hole, Null, Undef, Num(1), Str("s"), Arr(<<Str("a")>>), Arr(<<Str("b"), Str("c")>>),
     Obj(<< <<"f", Num(1)>> >>), Obj(<< <<"f", Num(2)>>, <<"g", Null>> >>)}

MoreValues == {Hole, Num(10), Arr(<<Str("z")>>)}

Present(pairs) == Obj(SelectSeq(pairs, LAMBDA p : p[2] # Hole))

MergeInputs == {Present(<< <<"k", v>>, <<"m", w>> >>) : v \in MergeValues, w \in MoreValues}

LastInputs ==
    {EmptyObj, Obj(<< <<"k", Arr(<<Str("z")>>)>> >>), Obj(<< <<"k", Obj(<< <<"h", Num(9)>> >>)>> >>)}

InitMerge ==
    /\ literal = <<>>
    /\ options = DEFAULT_OPTIONS
    /\ args \in MergeInputs \X MergeInputs \X LastInputs
    /\ tokens = <<>>
    /\ query = None
    /\ decoded = Undecoded
    /\ outcome = None
    /\ shared = EmptyObj
    /\ builder = PaginateBuilder(DEFAULT_OPTIONS)
    /\ calls = <<>>
    /\ cloned = Undef
    /\ heap = <<>>
    /\ pc = "init"

\* mergeParams(args[1], args[2], args[3])
MergeParams ==
    /\ pc = "init"
    /\ outcome' = Returns(mergeParams(args, shared))
    /\ pc' = "mergeParams"
    /\ UNCHANGED <<literal, options, args, tokens, query, decoded, shared, builder, calls, cloned, heap>>

\* builder.merge(p) for the next object of args
Merge ==
    /\ pc \in {"init", "merge"}
    /\ Len(calls) < Len(args)
    /\ builder' = PaginateBuilder_merge(builder, args[Len(calls) + 1], shared)
    /\ calls' = Append(calls, Call("merge", <<args[Len(calls) + 1]>>))
    /\ pc' = "merge"
    /\ UNCHANGED <<literal, options, args, tokens, query, decoded, outcome, shared, cloned, heap>>

NextMerge == MergeParams \/ Merge

SpecMerge == InitMerge /\ [][NextMerge]_vars

(***************************************************************************)
(* SpecAlias: a caller's object p is merged into a builder; then calls on  *)
(* the builder, assignments by the caller to p and to the mappings nested  *)
(* in it, getParams, and assignments by the caller to the mapping          *)
(* getParams returned.  literal holds p's entries and outcome the mapping  *)
(* returned; the mappings nested in them are references into the heap.     *)
(***************************************************************************)
MaxAliasCalls == 3

\* The caller's p and the mappings nested in it.
CallerData ==
    { [p |-> << <<"like", Ref(1)>> >>, heap |-> <<Obj(<< <<"f", Str("x")>> >>)>>],
      [p |-> << <<"like", Ref(1)>>, <<"in", Ref(2)>> >>,
       heap |-> <<Obj(<< <<"f", Str("x")>> >>), Obj(<< <<"f", Arr(<<Str("a")>>)>> >>)>>],
      [p |-> << <<"eq", Ref(1)>>, <<"page", Num(2)>> >>, heap |-> <<Obj(<< <<"g", Num(1)>> >>)>>],
      [p |-> << <<"page", Num(2)>>, <<"sort", Arr(<<Str("a")>>)>> >>, heap |-> <<>>] }

AliasFields == {"f", "g"}

AliasMethods == {"like", "equals"}

InitAlias ==
    /\ \E d \in CallerData : literal = d.p /\ heap = d.heap
    /\ options = DEFAULT_OPTIONS
    /\ args = <<>>
    /\ tokens = <<>>
    /\ query = None
    /\ decoded = Undecoded
    /\ outcome = None
    /\ shared = EmptyObj
    /\ builder = PaginateBuilder(DEFAULT_OPTIONS)
    /\ calls = <<>>
    /\ cloned = Undef
    /\ pc = "init"

\* A step of the builder or of the caller that changes objects in place.
Changed(op, a, b, h) ==
    /\ Len(calls) < MaxAliasCalls
    /\ args' = a
    /\ builder' = b
    /\ heap' = h
    /\ calls' = Append(calls, Call(op, a))
    /\ pc' = op
    /\ UNCHANGED <<options, tokens, query, decoded, shared, cloned>>

\* builder.merge(p)
MergeCaller ==
    /\ \A i \in 1..Len(calls) : calls[i].op # "merge"
    /\ Changed("merge", <<>>,
               [builder EXCEPT !.params =
                    PaginateBuilder_mergeHeld(builder, heap, Obj(literal), shared).params],
               PaginateBuilder_mergeHeld(builder, heap, Obj(literal), shared).heap)
    /\ UNCHANGED <<literal, outcome>>

\* builder.like(field, value), builder.equals(field, value)
AliasSingleValue ==
    /\ \E method \in AliasMethods, field \in AliasFields :
           Changed(method, <<Str(field), Str("y")>>,
                   setSingle(builder, heap, SingleValueMethods[method], field, Str("y"), shared).b,
                   setSingle(builder, heap, SingleValueMethods[method], field, Str("y"), shared).heap)
    /\ UNCHANGED <<literal, outcome>>

\* builder.whereIn(field, 'b')
AliasWhereIn ==
    /\ \E field \in AliasFields :
           Changed("whereIn", <<Str(field), Str("b")>>,
                   setMulti(builder, heap, "in", field, <<Str("b")>>, shared).b,
                   setMulti(builder, heap, "in", field, <<Str("b")>>, shared).heap)
    /\ UNCHANGED <<literal, outcome>>

\* r = builder.getParams()
AliasGetParams ==
    /\ Changed("getParams", <<>>, builder, heap)
    /\ outcome' = Returns(PaginateBuilder_getParams(builder))
    /\ UNCHANGED literal

\* The places of the mappings an object holds.
MapsOf(obj) == {obj.e[i][2].r : i \in {j \in 1..Len(obj.e) : obj.e[j][2].k = "ref"}}

\* p[key].c = 'caller' for a mapping p[key], after the merge
CallerSets ==
    /\ \E i \in 1..Len(calls) : calls[i].op = "merge"
    /\ \E r \in MapsOf(Obj(literal)) :
           Changed("callerSets", <<>>, builder,
                   [heap EXCEPT ![r] = ObjSet(@, "c", Str("caller"))])
    /\ UNCHANGED <<literal, outcome>>

\* p.page = 9, after the merge
CallerAssigns ==
    /\ \E i \in 1..Len(calls) : calls[i].op = "merge"
    /\ Changed("callerAssigns", <<>>, builder, heap)
    /\ literal' = SetEntry(literal, "page", Num(9))
    /\ UNCHANGED outcome

\* r[key].c = 'caller' for a mapping r[key] of the r that getParams returned
ReturnedSets ==
    /\ outcome.val.k = "obj"
    /\ \E r \in MapsOf(outcome.val) :
           Changed("returnedSets", <<>>, builder,
                   [heap EXCEPT ![r] = ObjSet(@, "c", Str("caller"))])
    /\ UNCHANGED <<literal, outcome>>

\* r.page = 9
ReturnedAssigns ==
    /\ outcome.val.k = "obj"
    /\ Changed("returnedAssigns", <<>>, builder, heap)
    /\ outcome' = Returns(ObjSet(outcome.val, "page", Num(9)))
    /\ UNCHANGED literal

NextAlias ==
    \/ MergeCaller \/ AliasSingleValue \/ AliasWhereIn \/ AliasGetParams
    \/ CallerSets \/ CallerAssigns \/ ReturnedSets \/ ReturnedAssigns

SpecAlias == InitAlias /\ [][NextAlias]_vars

(***************************************************************************)
(* SpecParse: fromJSON on a text and fromObject on a value                 *)
(***************************************************************************)
\* The texts handed to fromJSON: parameters in JSON, other JSON values, and
\* texts that are not JSON.
JsonTexts ==
    { "{\"page\":1,\"limit\":10,\"search\":\"john\",\"sort\":[\"name\"]}",
      "{\"page\":-1}", "{\"page\":2,\"limit\":0}", "{\"limit\":1.5}", "{}",
      "{ \"eq\" : { \"f\" : true } }", "5", "null", "[1]",
      "invalid json", "", "{\"page\":1", "{\"page\":2,}", "{page:1}" }

\* The values handed to fromObject.
ObjectInputs ==
    { Null, Undef, Num(5), Str("string"), Bool(TRUE), Arr(<<>>), Arr(<<Str("a")>>),
      EmptyObj,
      Obj(<< <<"page", Num(1)>>, <<"limit", Num(10)>>, <<"search", Str("john")>> >>),
      Obj(<< <<"page", Num(0)>> >>),
      Obj(<< <<"limit", Num(-1)>>, <<"sort", Arr(<<Str("a")>>)>> >>),
      Obj(<< <<"page", Tenths(15)>>, <<"limit", Num(0)>> >>) }

InitParse ==
    /\ literal = <<>>
    /\ options = DEFAULT_OPTIONS
    /\ args \in JsonTexts \X ObjectInputs
    /\ tokens = <<>>
    /\ query = None
    /\ decoded = Undecoded
    /\ outcome = None
    /\ shared = EmptyObj
    /\ builder = PaginateBuilder(DEFAULT_OPTIONS)
    /\ calls = <<>>
    /\ cloned = Undef
    /\ heap = <<>>
    /\ pc = "init"

\* fromJSON(args[1])
FromJSON ==
    /\ pc = "init"
    /\ outcome' = fromJSON(args[1], shared)
    /\ pc' = "fromJSON"
    /\ UNCHANGED <<literal, options, args, tokens, query, decoded, shared, builder, calls, cloned, heap>>

\* fromObject(args[2])
FromObject ==
    /\ pc = "init"
    /\ outcome' = fromObject(args[2], shared)
    /\ pc' = "fromObject"
    /\ UNCHANGED <<literal, options, args, tokens, query, decoded, shared, builder, calls, cloned, heap>>

NextParse == FromJSON \/ FromObject

SpecParse == InitParse /\ [][NextParse]_vars

(***************************************************************************)
(* Properties.  Tokens are read back as text: the name before the first    *)
(* "=", percent-decoded, and the value after it.                           *)
(***************************************************************************)
TokenName(t) == PercentDecode(SubSeq(t, 1, IndexOf(t, "=") - 1))

TokenValue(t) == DropFirst(t, IndexOf(t, "="))

TopOf(name) ==
    IF Includes(name, "[") THEN SubSeq(name, 1, IndexOf(name, "[") - 1) ELSE name

\* The part of a token's name before its first "[".
TopName(t) == TopOf(TokenName(t))

\* The name a top-level key has on the wire.
WireName(key) == IF key = "searchFields" THEN "search_fields" ELSE key

\* The token belongs to the entry called name: name, name[], name[i], name[f]...
Owns(name, t) == TokenName(t) = name \/ StartsWith(TokenName(t), name \o "[")

Range(seq) == {seq[i] : i \in 1..Len(seq)}

PropOf(val, key) == IF val.k = "obj" THEN GetOwn(val, key) ELSE Undef

\* The state after a toQueryString that returned.
Encoded == pc = "toQueryString" /\ query.err = ""

Skippable(val) == val \in {Null, Undef, Str("")}

ArrayFormat == mergeOptions(options).arrayFormat

(***************************************************************************)
(* C1                                                                      *)
(***************************************************************************)
RoundTripKeys ==
    {"page", "limit", "search", "vacuum", "sort", "searchFields", "isnull", "isnotnull"}

OperatorKeys == {"eq", "likeor"}

\* A scalar or a flat non-empty array the encoder does not skip.
Plain(val) ==
    \/ val.k \in {"num", "bool"}
    \/ val.k = "str" /\ val.v # ""
    \/ IsArray(val) /\ Len(val.v) > 0 /\ \A e \in Range(val.v) : e.k = "str" /\ e.v # ""

\* The models of the round-trip law: scalars, flat arrays, and operator maps
\* of scalars and single-level arrays.
RoundTripModel(lit) ==
    \A i \in 1..Len(lit) :
        \/ lit[i][1] \in RoundTripKeys /\ Plain(lit[i][2])
        \/ /\ lit[i][1] \in OperatorKeys
           /\ lit[i][2].k = "lit"
           /\ \A e \in Range(lit[i][2].l) : Plain(e[2])

\* C1: under the default repeat format, decoding the encoding of a valid
\* model of scalars, flat arrays and operator maps gives the model back, key
\* for key and element for element.
C1_RoundTripRepeat ==
    (pc = "fromQueryString" /\ ArrayFormat = "repeat" /\ RoundTripModel(literal))
        => (decoded.err = "" /\ decoded.val = Model(literal))

(***************************************************************************)
(* C2                                                                      *)
(***************************************************************************)
\* C2: formatArrayValue on a non-empty array gives one token k=v per element
\* under repeat, k[]=v under brackets, k[i]=v with i from 0 under indices,
\* one token k=v0,v1,... joined by "," under comma whatever arraySeparator
\* is, and one token joined by arraySeparator under separator; elements keep
\* their order, each is encoded on its own and the joiner is not encoded.
C2_ArrayFormatRule ==
    pc = "formatArrayValue" =>
        LET k == encodeValue(Str(args[1]), options.encodeValues)
            n == Len(args[2])
            e == [i \in 1..n |-> encodeValue(args[2][i], options.encodeValues)]
        IN  CASE options.arrayFormat = "repeat" ->
                   Len(tokens) = n /\ \A i \in 1..n : tokens[i] = k \o "=" \o e[i]
              [] options.arrayFormat = "brackets" ->
                   Len(tokens) = n /\ \A i \in 1..n : tokens[i] = k \o "[]=" \o e[i]
              [] options.arrayFormat = "indices" ->
                   Len(tokens) = n
                   /\ \A i \in 1..n : tokens[i] = k \o "[" \o NatToStr(i - 1) \o "]=" \o e[i]
              [] options.arrayFormat = "comma" ->
                   tokens = <<k \o "=" \o Join(e, ",")>>
              [] options.arrayFormat = "separator" ->
                   tokens = <<k \o "=" \o Join(e, options.arraySeparator)>>

\* A comma-format call with another separator configured, whose elements
\* hold the joiner.
C2_Witness ==
    /\ pc = "formatArrayValue"
    /\ options.arrayFormat = "comma"
    /\ options.arraySeparator = "|"
    /\ options.encodeValues
    /\ args[2] = <<Str("x,y|z"), Str("b c")>>
    /\ tokens = <<"sort=x%2Cy%7Cz,b%20c">>

(***************************************************************************)
(* C3                                                                      *)
(***************************************************************************)
IntegerAtLeastOne(val) == val.k = "num" /\ val.n % 10 = 0 /\ val.n >= 10

\* C3: validatePaginationParams throws 'Page must be a positive integer'
\* exactly when page is present and is not an integer >= 1, of whatever
\* type; otherwise 'Limit must be a positive integer' exactly when limit is
\* present and is not an integer >= 1; otherwise it returns.
C3_RejectsNonIntegers ==
    pc = "validatePaginationParams" =>
        outcome.err = (IF args[1] # Undef /\ ~IntegerAtLeastOne(args[1]) THEN PageError
                       ELSE IF args[2] # Undef /\ ~IntegerAtLeastOne(args[2]) THEN LimitError
                       ELSE "")

(***************************************************************************)
(* C4                                                                      *)
(***************************************************************************)
Suffixes(n, format) ==
    CASE format = "brackets" -> {"[]"}
      [] format = "indices" -> {"[" \o NatToStr(i) \o "]" : i \in 0..(n - 1)}
      [] OTHER -> {""}

\* The names of the tokens of one value under name.
ValueNames(name, val, format) ==
    IF IsArray(val) THEN {name \o x : x \in Suffixes(Len(val.v), format)} ELSE {name}

\* The names of the tokens of one top-level entry.
EntryNames(entry, format) ==
    IF IsObject(entry[2])
    THEN UNION {ValueNames(WireName(entry[1]) \o "[" \o e[1] \o "]", e[2], format) :
                  e \in Range(entry[2].e)}
    ELSE ValueNames(WireName(entry[1]), entry[2], format)

C5_BuildUrlSearchFields ==
    (/\ pc = "buildUrl"
     /\ args = <<Undef>>
     /\ options = DEFAULT_OPTIONS
     /\ Len(calls) = 4
     /\ calls[1].op = "setBaseUrl" /\ ~Includes(calls[1].args[1], "?")
     /\ calls[2].op = "page" /\ IntegerAtLeastOne(calls[2].args[1])
     /\ calls[3].op = "limit" /\ IntegerAtLeastOne(calls[3].args[1])
     /\ calls[4].op = "search" /\ Len(calls[4].args[2]) = 1)
        => outcome = Returns(Str(calls[1].args[1]
                                   \o "?page=" \o ToStr(calls[2].args[1])
                                   \o "&limit=" \o ToStr(calls[3].args[1])
                                   \o "&search=" \o calls[4].args[1].v
                                   \o "&searchFields=" \o calls[4].args[2][1].v))

(***************************************************************************)
(* C6                                                                      *)
(***************************************************************************)
IndexedSortKeys == {"sort[0]", "sort[1]"}

\* The idx of a pair sort[idx]=value.
SortIndex(pair) == DigitsToNat(SubSeq(pair[1], 6, Len(pair[1]) - 1))

\* The last value a sequence of sort[idx]=value pairs gives position idx.
LastAt(pairs, idx) ==
    LET at == {i \in 1..Len(pairs) : SortIndex(pairs[i]) = idx}
    IN  pairs[CHOOSE i \in at : \A j \in at : j <= i][2]

\* C6: a query of pairs sort[idx]=value decodes to a sort sequence that holds
\* at each position idx the last value given for idx, whatever order the
\* pairs arrive in: as long as the largest idx requires and no longer.
C6_IndexedSet ==
    (/\ pc = "fromQueryString"
     /\ Len(args) > 0
     /\ \A pair \in Range(args) : pair[1] \in IndexedSortKeys)
        => /\ decoded.err = ""
           /\ IsArray(PropOf(decoded.val, "sort"))
           /\ \A pair \in Range(args) :
                 /\ SortIndex(pair) < Len(PropOf(decoded.val, "sort").v)
                 /\ PropOf(decoded.val, "sort").v[SortIndex(pair) + 1]
                       = Str(LastAt(args, SortIndex(pair)))
           /\ \E pair \in Range(args) :
                 SortIndex(pair) + 1 = Len(PropOf(decoded.val, "sort").v)

(***************************************************************************)
(* C7                                                                      *)
(***************************************************************************)
NonEmptyArray(val) == IsArray(val) /\ Len(val.v) > 0

\* C7: under brackets and under indices, decoding the encoding of a valid
\* model gives back every non-empty flat array and every non-empty array of
\* an operator map, with the same elements in the same order.
C7_InverseBracketsIndices ==
    (pc = "fromQueryString" /\ ArrayFormat \in {"brackets", "indices"})
        => /\ decoded.err = ""
           /\ \A entry \in Range(Model(literal).e) :
                 /\ NonEmptyArray(entry[2])
                       => PropOf(decoded.val, entry[1]) = entry[2]
                 /\ IsObject(entry[2])
                       => \A e \in Range(entry[2].e) :
                             NonEmptyArray(e[2])
                                 => PropOf(PropOf(decoded.val, entry[1]), e[1]) = e[2]

(***************************************************************************)
(* C8                                                                      *)
(***************************************************************************)
NoToken(name) == \A i \in 1..Len(tokens) : ~Owns(name, tokens[i])

\* The one token of a scalar that is not skipped.
TokenOf(name, val) ==
    \E i \in 1..Len(tokens) :
        TokenName(tokens[i]) = name /\ PercentDecode(TokenValue(tokens[i])) = ToStr(val)

\* What the skip rule says of the value under name; top: a top-level entry.
SkipRule(name, val, top) ==
    IF val.k \in {"null", "undef"}
    THEN (IF mergeOptions(options).skipNulls THEN NoToken(name) ELSE TokenOf(name, val))
    ELSE IF val = Str("")
    THEN (IF mergeOptions(options).skipEmptyString THEN NoToken(name) ELSE TokenOf(name, val))
    ELSE IF top /\ val = Arr(<<>>) THEN NoToken(name)
    ELSE IF val \in {Num(0), Bool(FALSE)} THEN TokenOf(name, val)
    ELSE TRUE

\* C8: a top-level entry, and each entry of an operator map, has no token
\* when its value is null or undefined and skipNulls is on, or is "" and
\* skipEmptyString is on; with the option off the value is encoded; a
\* top-level empty array has no token under any options; 0 and false always
\* have their token.
C8_SkipRule ==
    Encoded =>
        \A entry \in Range(Model(literal).e) :
            /\ SkipRule(WireName(entry[1]), entry[2], TRUE)
            /\ IsObject(entry[2])
                  => \A e \in Range(entry[2].e) :
                        SkipRule(WireName(entry[1]) \o "[" \o e[1] \o "]", e[2], FALSE)

\* skipNulls off and skipEmptyString on: null is encoded inside and outside
\* an operator map, the empty strings are dropped.
C8_Witness ==
    /\ pc = "toQueryString"
    /\ ~mergeOptions(options).skipNulls
    /\ mergeOptions(options).skipEmptyString
    /\ Len(literal) = 2
    /\ literal[1] = <<"n", Null>>
    /\ tokens = <<"n=null", "eq%5Bf%5D=x", "eq%5BsearchFields%5D=true", "eq%5Bn%5D=null">>

(***************************************************************************)
(* C9                                                                      *)
(***************************************************************************)
\* The characters before token i in the tokens joined by one-character
\* separators.
RECURSIVE Offset(_)
Offset(i) == IF i = 1 THEN 0 ELSE Offset(i - 1) + Len(tokens[i - 1]) + 1

\* C9: with no token the query string is ""; otherwise it is the tokens in
\* order with exactly one "&" between neighbours, and neither starts nor
\* ends with "&" or "?".
C9_JoinedByAmpersand ==
    Encoded =>
        IF Len(tokens) = 0 THEN query.val = Str("")
        ELSE /\ Len(query.val.v) = Offset(Len(tokens)) + Len(tokens[Len(tokens)])
             /\ \A i \in 1..Len(tokens) :
                   SubSeq(query.val.v, Offset(i) + 1, Offset(i) + Len(tokens[i])) = tokens[i]
             /\ \A i \in 2..Len(tokens) : At(query.val.v, Offset(i)) = "&"
             /\ At(query.val.v, 1) \notin {"&", "?"}
             /\ At(query.val.v, Len(query.val.v)) \notin {"&", "?"}

\* A model of two entries, both skipped.
C9_Witness ==
    /\ pc = "toQueryString"
    /\ Len(literal) = 2
    /\ tokens = <<>>
    /\ query = Returns(Str(""))

(***************************************************************************)
(* C10                                                                     *)
(***************************************************************************)
\* The place of entry i of pairs in the order the entries were written.
InsertionRank(pairs, i) == i

\* The place of entry i of pairs among the own properties of the object:
\* array-index keys first, ascending, then the other keys as written.
EnumerationRank(pairs, i) ==
    IF IsIndexKey(pairs[i][1])
    THEN 1 + Cardinality({j \in 1..Len(pairs) :
                            /\ IsIndexKey(pairs[j][1])
                            /\ DigitsToNat(pairs[j][1]) < DigitsToNat(pairs[i][1])})
    ELSE 1 + Cardinality({j \in 1..Len(pairs) : IsIndexKey(pairs[j][1])})
           + Cardinality({j \in 1..(i - 1) : ~IsIndexKey(pairs[j][1])})

\* The entry of the literal a token comes from.
OwnerPos(t) == CHOOSE i \in 1..Len(literal) : WireName(literal[i][1]) = TopName(t)

\* The field of an operator map a token comes from.
FieldOf(name) == SubSeq(name, IndexOf(name, "[") + 1, IndexOf(name, "]") - 1)

FieldName(t) == FieldOf(TokenName(t))

FieldPos(fields, t) == CHOOSE j \in 1..Len(fields) : fields[j][1] = FieldName(t)

\* The non-empty arrays of the literal, each with the name it has on the wire.
NamedArrays ==
    {<<WireName(entry[1]), entry[2].v>> : entry \in {e \in Range(literal) : NonEmptyArray(e[2])}}
    \cup UNION {{<<WireName(entry[1]) \o "[" \o f[1] \o "]", f[2].v>> :
                    f \in {g \in Range(entry[2].l) : NonEmptyArray(g[2])}} :
                  entry \in {e \in Range(literal) : e[2].k = "lit"}}

TokensOf(name) == SelectSeq(tokens, LAMBDA t : Owns(name, t))

EncodedElements(elems) ==
    [i \in 1..Len(elems) |-> encodeValue(elems[i], mergeOptions(options).encodeValues)]

\* The tokens toks of an array carry its elements in element order.
ElementsInOrder(toks, elems) ==
    IF ArrayFormat \in {"comma", "separator"}
    THEN /\ Len(toks) = 1
         /\ TokenValue(toks[1])
               = Join(EncodedElements(elems),
                      IF ArrayFormat = "comma" THEN ","
                      ELSE mergeOptions(options).arraySeparator)
    ELSE [i \in 1..Len(toks) |-> TokenValue(toks[i])] = EncodedElements(elems)

\* Neighbours a and a + 1 among the tokens, owned by entries o and p of the
\* literal, are in the order Rank gives the entries, and within one operator
\* map in the order Rank gives its fields.
NeighboursOrdered(Rank(_, _), a, o, p) ==
    /\ Rank(literal, o) <= Rank(literal, p)
    /\ (o = p /\ literal[o][2].k = "lit")
          => Rank(literal[o][2].l, FieldPos(literal[o][2].l, tokens[a]))
                <= Rank(literal[o][2].l, FieldPos(literal[o][2].l, tokens[a + 1]))

OwnersOrdered(Rank(_, _), owners) ==
    \A a \in 1..(Len(tokens) - 1) : NeighboursOrdered(Rank, a, owners[a], owners[a + 1])

\* The tokens follow the order Rank gives the top-level entries and the
\* fields of each operator map, and each array's tokens its element order.
TokensOrdered(Rank(_, _)) ==
    /\ OwnersOrdered(Rank, [a \in 1..Len(tokens) |-> OwnerPos(tokens[a])])
    /\ \A array \in NamedArrays : ElementsInOrder(TokensOf(array[1]), array[2])

\* C10 as amended: the tokens of top-level entries, and of the fields of one
\* operator map, come in the order the object enumerates its own properties
\* (array-index keys ascending, then the other keys in insertion order), and
\* the tokens of one array in element order; tokens of different entries are
\* never interleaved.
C10_EnumerationOrder == Encoded => TokensOrdered(EnumerationRank)

\* C10: the tokens of top-level entries come in the model's insertion order,
\* the tokens of one operator map in the map's field insertion order, and
\* the tokens of one array in element order, never re-sorted or interleaved.
C10_InsertionOrder == Encoded => TokensOrdered(InsertionRank)

\* A key that is an array index, written after page and emitted before it.
C10_Witness ==
    /\ pc = "toQueryString"
    /\ literal = << <<"page", Num(2)>>, <<"7", Str("x")>> >>
    /\ tokens = <<"7=x", "page=2">>

(***************************************************************************)
(* C11                                                                     *)
(***************************************************************************)
HasQuestionMark(url) == \E i \in 1..Len(url) : At(url, i) = "?"

\* result is url when the query string is empty, and otherwise url, one
\* separator and the query string.
Assembled(url, queryString, result) ==
    IF queryString = "" THEN result = url
    ELSE /\ Len(result) = Len(url) + 1 + Len(queryString)
         /\ SubSeq(result, 1, Len(url)) = url
         /\ At(result, Len(url) + 1) = (IF HasQuestionMark(url) THEN "&" ELSE "?")
         /\ DropFirst(result, Len(url) + 1) = queryString

\* The URL the call starts from: toUrl's argument, and for buildUrl its
\* argument or, when that is left out, the URL setBaseUrl stored.
UrlGiven ==
    IF pc = "toUrl" THEN args[1]
    ELSE IF args[1] = Undef THEN builder.baseUrl ELSE args[1].v

QueryOfParams == toQueryString(PaginateBuilder_getParams(builder), options, shared)

\* C11: toUrl(baseUrl, m) and buildUrl return the base URL unchanged when
\* the query string is empty, and otherwise the base URL, then '&' when the
\* base URL has a '?' and '?' when it has none, then the query string
\* toQueryString gives for the same parameters and options.
C11_UrlAssembly ==
    (pc \in {"toUrl", "buildUrl"} /\ QueryOfParams.err = "")
        => /\ outcome.err = ""
           /\ outcome.val.k = "str"
           /\ Assembled(UrlGiven, QueryOfParams.val.v, outcome.val.v)

C11_Witness ==
    /\ pc = "toUrl"
    /\ args = <<"/api?x=1">>
    /\ outcome = Returns(Str("/api?x=1&page=2&search=john"))

(***************************************************************************)
(* C12                                                                     *)
(***************************************************************************)
Producing ==
    {"toQueryString", "toUrl", "toAxiosConfig", "toFetchConfig", "buildQueryString",
     "buildUrl", "build", "buildAxiosConfig", "buildFetchConfig"}

\* The builder holds a page or a limit that is not an integer >= 1.
InvalidStaged ==
    \E key \in {"page", "limit"} :
        /\ PropOf(builder.params, key) # Undef
        /\ ~IntegerAtLeastOne(PropOf(builder.params, key))

Decoded == pc = "fromQueryString" /\ decoded.err = ""

\* The text a raw key or value stands for.
Text(raw) == PercentDecode(PlusToSpace(raw))

\* The values of the pairs named key, in arrival order.
ValuesOf(key) ==
    LET named == SelectSeq(args, LAMBDA pair : pair[1] = key)
    IN  [i \in 1..Len(named) |-> Str(Text(named[i][2]))]

LastOf(key) == ValuesOf(key)[Len(ValuesOf(key))]

PairKeys == {args[i][1] : i \in 1..Len(args)}

\* key is base[field]: one pair of brackets that closes the key, around a
\* field that is not a decimal integer.
IsNestedKey(key) ==
    /\ IndexOf(key, "[") > 1
    /\ IndexOf(key, "]") = Len(key)
    /\ FieldOf(key) # ""
    /\ ~Includes(FieldOf(key), "[")
    /\ ~AllDigits(FieldOf(key))

\* Every pair about the same base as key has the shape of key.
SameShape(key, Shape(_)) == \A other \in PairKeys : TopOf(other) = TopOf(key) => Shape(other)

\* C13: for keys base[field], field not a decimal integer, one occurrence
\* leaves the string under model[base][field] and k >= 2 occurrences leave
\* the sequence of the k values in arrival order.
C13_NestedCollapse ==
    Decoded =>
        \A key \in PairKeys :
            (IsNestedKey(key) /\ SameShape(key, IsNestedKey))
                => PropOf(PropOf(decoded.val, TopOf(key)), FieldOf(key))
                     = (IF Len(ValuesOf(key)) = 1 THEN ValuesOf(key)[1]
                        ELSE Arr(ValuesOf(key)))

NumericText(raw) == raw # "" /\ AllDigits(raw)

\* C14: fromQueryString throws when the value of a page or limit key is not
\* numeric (empty, alphabetic, or digits followed by other characters), and
\* stores a numeric value as that integer.
C14_NonNumericFails ==
    pc = "fromQueryString" =>
        \A i \in 1..Len(args) :
            args[i][1] \in {"page", "limit"} =>
                IF NumericText(args[i][2])
                THEN Decoded => PropOf(decoded.val, args[i][1]).k = "num"
                ELSE decoded.err # ""

Unbracketed(key) == ~Includes(key, "[")

\* C15: repeated sort or searchFields keys give the sequence of their values
\* in arrival order; vacuum gives true exactly for the value "true"; any
\* other key without brackets gives the string of its last value.
C15_UnbracketedKeys ==
    Decoded =>
        \A key \in PairKeys :
            (Unbracketed(key) /\ SameShape(key, Unbracketed))
                => PropOf(decoded.val, key)
                     = (CASE key \in {"sort", "searchFields"} -> Arr(ValuesOf(key))
                          [] key = "vacuum" -> Bool(LastOf(key) = Str("true"))
                          [] key \in {"page", "limit"} -> PropOf(decoded.val, key)
                          [] OTHER -> LastOf(key))

(***************************************************************************)
(* C16                                                                     *)
(***************************************************************************)
Malformed == [k |-> "malformed"]

\* What each text of JsonTexts denotes by the JSON grammar.
Denoted(text) ==
    CASE text = "{\"page\":1,\"limit\":10,\"search\":\"john\",\"sort\":[\"name\"]}" ->
           Obj(<< <<"page", Num(1)>>, <<"limit", Num(10)>>, <<"search", Str("john")>>,
                  <<"sort", Arr(<<Str("name")>>)>> >>)
      [] text = "{\"page\":-1}" -> Obj(<< <<"page", Num(-1)>> >>)
      [] text = "{\"page\":2,\"limit\":0}" -> Obj(<< <<"page", Num(2)>>, <<"limit", Num(0)>> >>)
      [] text = "{\"limit\":1.5}" -> Obj(<< <<"limit", Tenths(15)>> >>)
      [] text = "{}" -> EmptyObj
      [] text = "{ \"eq\" : { \"f\" : true } }" ->
           Obj(<< <<"eq", Obj(<< <<"f", Bool(TRUE)>> >>)>> >>)
      [] text = "5" -> Num(5)
      [] text = "null" -> Null
      [] text = "[1]" -> Arr(<<Num(1)>>)
      [] OTHER -> Malformed

\* The error the range rule asks for on a mapping: page first, then limit.
RangeErrorOf(val) ==
    IF PropOf(val, "page") # Undef /\ ~IntegerAtLeastOne(PropOf(val, "page")) THEN PageError
    ELSE IF PropOf(val, "limit") # Undef /\ ~IntegerAtLeastOne(PropOf(val, "limit"))
    THEN LimitError
    ELSE ""

\* C16: fromJSON throws the 'Invalid JSON for pagination parameters' error,
\* with the parser's message, on malformed text; on well-formed text whose
\* page or limit is invalid it throws the error that names the field, not
\* the parse failure; a valid mapping is returned as parsed.
C16_FromJSONErrors ==
    (pc = "fromJSON" /\ Denoted(args[1]).k \in {"malformed", "obj"}) =>
        IF Denoted(args[1]) = Malformed
        THEN outcome.err = InvalidJSON \o ": " \o SyntaxError
        ELSE IF RangeErrorOf(Denoted(args[1])) # ""
        THEN outcome.err = RangeErrorOf(Denoted(args[1]))
        ELSE outcome = Returns(Denoted(args[1]))

(***************************************************************************)
(* C17                                                                     *)
(***************************************************************************)
\* C17: fromObject throws 'Invalid object for pagination parameters' for
\* null and for every value that is not a mapping (scalars, strings and
\* sequences), throws the range error for a mapping with an invalid page or
\* limit, and otherwise returns the mapping as given.
C17_FromObjectShape ==
    pc = "fromObject" =>
        IF args[2].k # "obj" THEN outcome.err = InvalidObject
        ELSE IF RangeErrorOf(args[2]) # "" THEN outcome.err = RangeErrorOf(args[2])
        ELSE outcome = Returns(args[2])

(***************************************************************************)
(* C18                                                                     *)
(***************************************************************************)
\* What the dedicated method of an operator does with filter's arguments:
\* the single-value methods take the value, the multi-value methods the
\* values, between the two bounds, isNull and isNotNull the field.
Dedicated(b, h, field, operator, value, sh) ==
    CASE operator \in {"like", "eq", "gte", "gt", "lte", "lt"} ->
           setSingle(b, h, operator, field, value, sh)
      [] operator \in {"likeor", "likeand", "eqor", "eqand", "in", "notin"} ->
           setMulti(b, h, operator, field, asList(value), sh)
      [] operator = "between" ->
           PaginateBuilder_between(b, h, field, asList(value)[1], asList(value)[Len(asList(value))], sh)
      [] OTHER -> setList(b, h, operator, <<Str(field)>>, sh)

\* The outcome of a call that gave w.
OutcomeOf(w) == IF w.err = "" THEN None ELSE Throws(w.err)

IsUnsupported(out) == StartsWith(out.err, UnsupportedOperator)

\* C18: filter(field, operator, value) throws 'Unsupported filter operator'
\* only for an operator outside the FilterOperator set; for an operator of
\* the set it leaves the builder as the operator's dedicated method would;
\* and when it throws, the builder's parameters are as they were.
C18_FilterOperators ==
    [][(pc' = "filter" /\ calls' # calls) =>
          /\ IsUnsupported(outcome') <=> args'[2] \notin FilterOperator
          /\ args'[2] \in FilterOperator =>
                /\ staged(builder', heap') =
                     [Dedicated(builder, heap, args'[1], args'[2], args'[3], shared)
                        EXCEPT !.err = ""]
                /\ outcome' =
                     OutcomeOf(Dedicated(builder, heap, args'[1], args'[2], args'[3], shared))
          /\ outcome'.err # "" => Held(builder', heap') = Held(builder, heap)]_vars

(***************************************************************************)
(* C19                                                                     *)
(***************************************************************************)
\* The place of the last reset() among the calls, 0 when there was none.
LastReset ==
    IF \E i \in 1..Len(calls) : calls[i].op = "reset"
    THEN CHOOSE i \in 1..Len(calls) :
            /\ calls[i].op = "reset"
            /\ \A j \in (i + 1)..Len(calls) : calls[j].op # "reset"
    ELSE 0

SinceReset == SubSeq(calls, LastReset + 1, Len(calls))

\* What getParams() shows at params[key][field], Undef when it has none.
StagedAt(key, field) ==
    IF /\ HasOwn(builder.params, key)
       /\ HasOwn(Seen(GetOwn(builder.params, key), heap), field)
    THEN GetOwn(Seen(GetOwn(builder.params, key), heap), field)
    ELSE Undef

\* The calls since the last reset of the methods that write params[key],
\* for one field.
CallsFor(methods, key, field) ==
    SelectSeq(SinceReset, LAMBDA c : /\ c.op \in DOMAIN methods
                                     /\ methods[c.op] = key
                                     /\ c.args[1] = field)

LastValue(cs) == IF cs = <<>> THEN Undef ELSE cs[Len(cs)].args[2]

LastBounds(cs) ==
    IF cs = <<>> THEN Undef ELSE Arr(<<cs[Len(cs)].args[2], cs[Len(cs)].args[3]>>)

AllValues(cs) ==
    IF cs = <<>> THEN Undef ELSE Arr(Flatten([i \in 1..Len(cs) |-> cs[i].args[2]]))

\* The items a call adds to the flat list at key.
ItemsOf(c, key) ==
    IF c.op \in DOMAIN ListMethods /\ ListMethods[c.op] = key THEN c.args[1]
    ELSE IF key = "sort" /\ c.op = "sortAsc" THEN <<Str(c.args[1])>>
    ELSE IF key = "sort" /\ c.op = "sortDesc" THEN <<Str("-" \o c.args[1])>>
    ELSE <<>>

AllItems(key) == Flatten([i \in 1..Len(SinceReset) |-> ItemsOf(SinceReset[i], key)])

ListAt(key) == IF HasOwn(builder.params, key) THEN GetOwn(builder.params, key).v ELSE <<>>

NoFilterCall == \A i \in 1..Len(calls) : calls[i].op # "filter"

\* C19: after any sequence of calls of the filter and list methods, every
\* single-value operator map and between hold for each field the value of
\* the last call for it since the last reset, and every multi-value
\* operator map and every flat list hold the values of all calls since the
\* last reset, in call order.
C19_IncrementalBuilding ==
    NoFilterCall =>
        /\ \A field \in FilterFields :
              /\ \A key \in {"like", "eq", "gte", "gt", "lte", "lt"} :
                    StagedAt(key, field) = LastValue(CallsFor(SingleValueMethods, key, field))
              /\ StagedAt("between", field) =
                    LastBounds(CallsFor([between |-> "between"], "between", field))
              /\ \A key \in {"likeor", "likeand", "eqor", "eqand", "in", "notin"} :
                    StagedAt(key, field) = AllValues(CallsFor(MultiValueMethods, key, field))
        /\ \A key \in {"sort", "isnull", "isnotnull", "searchFields"} :
              ListAt(key) = AllItems(key)

(***************************************************************************)
(* C20                                                                     *)
(***************************************************************************)
\* What t.getParams() and t.buildQueryString() return for a builder and a
\* heap.
Observed(b, h, sh) ==
    <<Resolved(PaginateBuilder_getParams(b), h),
      PaginateBuilder_buildQueryString(Held(b, h), sh)>>

\* The step is a call on builder t that returns the builder.
CallOn(t) == calls' # calls /\ args'[1] = t /\ pc' # "clone"

\* C20: right after c = b.clone(), c has the parameters, the options and
\* the base URL of b; and from then on no call on c changes what
\* b.getParams() and b.buildQueryString() return, nor a call on b what c's
\* return.
C20_CloneIndependence ==
    [][/\ (pc' = "clone" /\ calls' # calls) =>
             /\ Held(cloned', heap') = Held(builder', heap')
             /\ Observed(builder', heap', shared') = Observed(builder, heap, shared)
       /\ (cloned # Undef /\ CallOn("c")) =>
             Observed(builder', heap', shared') = Observed(builder, heap, shared)
       /\ (cloned # Undef /\ CallOn("b")) =>
             Observed(cloned', heap', shared') = Observed(cloned, heap, shared)]_vars

(***************************************************************************)
(* C21                                                                     *)
(***************************************************************************)
\* The fields of two mappings, the later one's value where both have one.
FieldsOfBoth(earlier, later) ==
    {p \in Range(later.e) : TRUE} \cup {p \in Range(earlier.e) : ~HasOwn(later, p[1])}

\* The value the merge rule gives a key that held earlier (Undef: nothing)
\* when later arrives.
RuleValue(earlier, later) ==
    IF later \in {Null, Undef} THEN earlier
    ELSE IF IsArray(earlier) /\ IsArray(later) THEN Arr(earlier.v \o later.v)
    ELSE IF IsObject(earlier) /\ IsObject(later)
    THEN Obj(CHOOSE es \in SeqsUpTo(FieldsOfBoth(earlier, later),
                                    Cardinality(FieldsOfBoth(earlier, later))) :
                /\ Len(es) = Cardinality(FieldsOfBoth(earlier, later))
                /\ Range(es) = FieldsOfBoth(earlier, later))
    ELSE later

RECURSIVE RuleOver(_, _, _)
RuleOver(earlier, objects, key) ==
    IF Len(objects) = 0 THEN earlier
    ELSE RuleOver(RuleValue(earlier, GetOwn(objects[1], key)), Tail(objects), key)

\* Two values are the same but for the order of a mapping's fields.
SameValue(actual, claimed) ==
    IF IsObject(actual) /\ IsObject(claimed) THEN Range(actual.e) = Range(claimed.e)
    ELSE actual = claimed

MergeKeys == {"k", "m"}

Follows(result, objects) ==
    /\ \A p \in Range(result.e) : p[1] \in MergeKeys
    /\ \A key \in MergeKeys :
          /\ HasOwn(result, key) <=> RuleOver(Undef, objects, key) # Undef
          /\ SameValue(GetOwn(result, key), RuleOver(Undef, objects, key))

\* C21: mergeParams and builder.merge give each key the value of the merge
\* rule: a later null or undefined leaves the earlier value, two arrays are
\* joined, two mappings give the fields of both with the later value
\* winning, anything else is replaced by the later value; a key of one
\* input only keeps its value.
C21_MergeRule ==
    /\ pc = "mergeParams" => Follows(outcome.val, args)
    /\ pc = "merge" => Follows(builder.params, SubSeq(args, 1, Len(calls)))

(***************************************************************************)
(* C22                                                                     *)
(***************************************************************************)
WasReset == LastReset > 0

\* The calls of one method since the last reset.
SinceBy(op) == SelectSeq(SinceReset, LAMBDA c : c.op = op)

\* What a mapping of the one field holds after the calls cs of a
\* single-value method: nothing when there was none.
OneField(cs) ==
    IF cs = <<>> THEN Undef ELSE Obj(<< <<CloneField, cs[Len(cs)].args[3]>> >>)

\* What the calls since the last reset alone stage at a key.
FromEmpty(key) ==
    CASE key = "like" -> OneField(SinceBy("like"))
      [] key = "eq" -> OneField(SinceBy("equals"))
      [] key = "in" ->
           (IF SinceBy("whereIn") = <<>> THEN Undef
            ELSE Obj(<< <<CloneField,
                          Arr(Flatten([i \in 1..Len(SinceBy("whereIn")) |->
                                          SinceBy("whereIn")[i].args[3]]))>> >>))
      [] key = "sort" ->
           (IF SinceBy("sort") = <<>> THEN Undef
            ELSE Arr(Flatten([i \in 1..Len(SinceBy("sort")) |-> SinceBy("sort")[i].args[2]])))
      [] key = "page" ->
           (IF SinceBy("page") = <<>> THEN Undef
            ELSE SinceBy("page")[Len(SinceBy("page"))].args[2])
      [] OTHER -> Undef

\* The base URL the calls have stored.
StoredBaseUrl ==
    IF \E i \in 1..Len(calls) : calls[i].op = "setBaseUrl" THEN "/api" ELSE ""

\* getParams() of the builder.
ParamsNow == Resolved(PaginateBuilder_getParams(builder), heap)

\* C22: once reset() was called, getParams() holds exactly what the calls
\* made after it staged, so the empty mapping and the empty query string
\* right after the reset, and nothing staged before it; the options and the
\* stored base URL are those of before the reset.
C22_ResetFromEmpty ==
    WasReset =>
        /\ \A p \in Range(ParamsNow.e) : p[2] = FromEmpty(p[1])
        /\ \A key \in {"like", "eq", "in", "sort", "page"} :
              GetOwn(ParamsNow, key) = FromEmpty(key)
        /\ builder.options = mergeOptions(options)
        /\ builder.baseUrl = StoredBaseUrl
        /\ (SinceReset = <<>> /\ pc = "getParams") => outcome = Returns(EmptyObj)
        /\ (SinceReset = <<>> /\ pc = "buildQueryString") => outcome = Returns(Str(""))

\* like, setBaseUrl, reset, equals, and getParams() shows the equals only.
C22_Witness ==
    /\ Len(calls) = 3
    /\ calls[1].op = "like" /\ calls[2].op = "reset" /\ calls[3].op = "equals"
    /\ pc = "getParams"
    /\ outcome = Returns(Obj(<< <<"eq", Obj(<< <<CloneField, calls[3].args[3]>> >>)>> >>))

\* The places of s that hold a colon.
Colons(s) == {i \in 1..Len(s) : At(s, i) = ":"}

\* What field:dir asks for when the colon at place i parts field from dir.
PartedAt(s, i) ==
    SortOf(SubSeq(s, 1, i - 1), IF toLowerCase(DropFirst(s, i)) = "desc" THEN "desc" ELSE "asc")

\* The results the rule allows for s.  A string with several colons can be
\* read as field:dir at any of them, or as not of that form at all.
SortsAllowed(s) ==
    IF StartsWith(s, "-") THEN {SortOf(DropFirst(s, 1), "desc")}
    ELSE IF Colons(s) = {} THEN {SortOf(s, "asc")}
    ELSE {PartedAt(s, i) : i \in Colons(s)}
         \cup (IF Cardinality(Colons(s)) > 1 THEN {SortOf(s, "asc")} ELSE {})

\* C23: parseSortString gives the remainder, desc, for a string starting
\* with '-'; otherwise for field:dir that field, desc iff dir is 'desc' in
\* any letter case and asc for any other dir; otherwise the string itself,
\* asc.  The direction is always asc or desc.
C23_ParseSortString ==
    pc = "parseSortString" =>
        /\ outcome.err = ""
        /\ outcome.val \in SortsAllowed(args[1].v)
        /\ GetOwn(outcome.val, "direction") \in {Str("asc"), Str("desc")}

\* A property that is absent, or a number that is a positive integer.
AbsentOrPositive(obj, key) ==
    HasOwn(obj, key) => GetOwn(obj, key).k = "num" /\ IsInteger(GetOwn(obj, key)) /\ GetOwn(obj, key).n >= 10

\* C24: every model fromQueryString returns has page absent or a positive
\* integer number, and limit likewise, also when the query string names
\* page or limit through bracketed keys.
C24_DecodedPageLimit ==
    pc = "fromQueryString" /\ decoded.err = "" =>
        AbsentOrPositive(decoded.val, "page") /\ AbsentOrPositive(decoded.val, "limit")

\* The base of a key: what stands before its first bracket.
BaseOf(key) == IF Includes(key, "[") THEN SubSeq(key, 1, IndexOf(key, "[") - 1) ELSE key

\* What stands after the base.
Brackets(key) == DropFirst(key, Len(BaseOf(key)))

\* base[] or base[idx]
IsSequenceKey(key) ==
    \/ Brackets(key) = "[]"
    \/ /\ Len(Brackets(key)) > 2
       /\ StartsWith(Brackets(key), "[") /\ EndsWith(Brackets(key), "]")
       /\ AllDigits(SubSeq(Brackets(key), 2, Len(Brackets(key)) - 1))

\* base[field]
IsFieldKey(key) ==
    /\ Len(Brackets(key)) > 2
    /\ StartsWith(Brackets(key), "[") /\ EndsWith(Brackets(key), "]")
    /\ ~Includes(SubSeq(Brackets(key), 2, Len(Brackets(key)) - 1), "[")
    /\ ~Includes(SubSeq(Brackets(key), 2, Len(Brackets(key)) - 1), "]")
    /\ ~AllDigits(SubSeq(Brackets(key), 2, Len(Brackets(key)) - 1))

\* The pair at place i is the last one of the query string with its base.
LastOfBase(pairs, i) == \A j \in (i + 1)..Len(pairs) : BaseOf(pairs[j][1]) # BaseOf(pairs[i][1])

ShapeKept(model, key) ==
    /\ IsSequenceKey(key) => IsArray(GetOwn(model, BaseOf(key)))
    /\ IsFieldKey(key) => GetOwn(model, BaseOf(key)).k = "obj"

\* C25: fromQueryString returns a model or raises the page/limit range
\* error and no other error, also when pairs name one base key in different
\* shapes; after a base[idx] or base[] pair model[base] is a sequence, after
\* a base[field] pair a mapping.
C25_ShapeConflicts ==
    pc = "fromQueryString" =>
        /\ decoded.err \in {"", PageError, LimitError}
        /\ decoded.err = "" =>
               \A i \in 1..Len(args) : LastOfBase(args, i) => ShapeKept(decoded.val, args[i][1])

\* What a call gives when nothing was decoded before it.
OnItsOwn(call) ==
    IF call.op = "fromQueryString" THEN Outcome(fromQueryString(call.args[1].v, EmptyObj))
    ELSE toQueryString(call.args[1], DEFAULT_OPTIONS, EmptyObj)

\* C26: fromQueryString writes only into the model it constructs: no query
\* string, keys with an inherited base such as __proto__[field] or
\* constructor[field] included, changes what a later independent decode or
\* encode call gives.
C26_DecodeIsolation ==
    /\ pc = "fromQueryString" => shared = EmptyObj
    /\ pc = "later" => outcome = OnItsOwn(calls[1])

\* C27: an empty sequence never produces a token: under every array format
\* a model whose only content is empty sequences, at the top level or as
\* the value of a field inside an operator map, encodes to ''.
C27_EmptySequences ==
    pc = "toQueryString" /\ Len(literal) > 0 => tokens = <<>> /\ query = Returns(Str(""))

\* The calls that encode or build.
ReadOnlyCalls ==
    {"getParams", "buildQueryString", "buildUrl", "build", "buildAxiosConfig",
     "buildFetchConfig", "toQueryString", "toUrl", "toAxiosConfig", "toFetchConfig"}

RECURSIVE Leaves(_)
Leaves(val) ==
    IF val.k = "arr"
    THEN UNION ({Leaves(val.v[i]) : i \in 1..Len(val.v)}
                \cup {Leaves(val.x[i][2]) : i \in 1..Len(val.x)})
    ELSE IF val.k = "obj" THEN UNION {Leaves(val.e[i][2]) : i \in 1..Len(val.e)}
    ELSE {val}

\* The pair key=value shows in the model: under the key's base the model
\* holds the value, as the string or as the number parsed from it.
Reflected(model, key, value) ==
    \E leaf \in Leaves(GetOwn(model, BaseOf(key))) :
        leaf = Str(value) \/ (BaseOf(key) \in {"page", "limit"} /\ leaf = ParseInt(value))

\* A later pair assigns the base of the pair at place i as a key without
\* brackets: the last value of such a key is the one the model keeps.
Reassigned(pairs, i) ==
    \E j \in (i + 1)..Len(pairs) :
        pairs[j][1] = BaseOf(pairs[i][1]) /\ pairs[j][1] \notin {"sort", "searchFields"}

\* C29: the decoder discards no pair silently: when fromQueryString returns,
\* each key=value pair of the query string is reflected in the model, also
\* a key with brackets that has none of the shapes base[idx], base[field][],
\* base[field], base[], such as a[b][c]=v and a[b][0]=v.
C29_NoPairDiscarded ==
    pc = "fromQueryString" /\ decoded.err = "" =>
        \A i \in 1..Len(args) :
            ~Reassigned(args, i) => Reflected(decoded.val, args[i][1], args[i][2])

\* The calls on the builder that stage a filter.
StagingCalls == {"like", "equals", "whereIn"}

\* The steps of the caller on p, and on the mapping getParams returned.
CallerSteps == {"callerSets", "callerAssigns"}

ReturnedSteps == {"returnedSets", "returnedAssigns"}

\* C30: builder.merge(p) does not alias the caller's data: no later call on
\* the builder changes p or a mapping nested in p, and no later change the
\* caller makes to p changes the builder's parameters; likewise for the
\* mapping getParams() returned and the builder's state.
C30_MergeDoesNotAlias ==
    [][/\ (calls' # calls /\ pc' \in StagingCalls \cup {"merge", "getParams"}) =>
             /\ Resolved(Obj(literal'), heap') = Resolved(Obj(literal), heap)
             /\ outcome.val.k = "obj" => Resolved(outcome.val, heap') = Resolved(outcome.val, heap)
       /\ (calls' # calls /\ pc' \in CallerSteps \cup ReturnedSteps) =>
             Held(builder', heap') = Held(builder, heap)]_vars

====
